---- MODULE Spec2Model ----
(***************************************************************************)
(* A model of nostr-intel-mcp: the SQLite-backed cache and rate counter    *)
(* (src/src/nostr/cache.rs), the free-tier limiter                         *)
(* (src/src/payment/free_tier.rs), the NWC invoice gateway                 *)
(* (src/src/payment/nwc_gateway.rs), the L402 token format                 *)
(* (src/src/payment/l402.rs) and the payment gate of the paid tools        *)
(* (src/src/server.rs).                                                    *)
(*                                                                         *)
(* Every async function is cut at its await points: one action per SQL     *)
(* statement or wallet RPC, so that concurrent tasks interleave exactly    *)
(* where the tokio runtime lets them.  Each SQL statement is atomic        *)
(* (SQLite serialises writers).  A statement or an RPC may fail; the       *)
(* failure takes the path the code's `?` or `match` gives it.              *)
(***************************************************************************)
EXTENDS Integers, Sequences, FiniteSets, TLC

(***************************************************************************)
(* Bounds of the model.                                                    *)
(***************************************************************************)
NumProcs == 2
MaxLimit == 1
MaxCalls == 2
MaxTime == 3
MaxTtl == 2
MaxOps == 3

Procs == 1..NumProcs
Tasks == {1, 2}
Clients == {"http-0", "http-1"}
Days == {1, 2}
Limits == 0..MaxLimit

Min(a, b) == IF a < b THEN a ELSE b

VARIABLES
    calls_per_day,    \* config.free_tier.calls_per_day
    rate_limits,      \* table rate_limits: (client_id, day_ordinal) -> count
    ncalls,           \* calls started so far (bounded by MaxCalls)
    rcall,            \* tasks calling Cache::check_and_increment_rate directly
    rstat,            \* history of the rate counter, per (client_id, day_ordinal)
    nwc_configured,   \* NostrIntelServer.nwc_gateway is Some
    today,            \* chrono::Utc::now().ordinal()
    pending_invoices, \* NwcGateway.pending_invoices
    wallet,           \* the NWC wallet: the invoices it has issued, by payment hash
    settled,          \* the payment hashes the wallet reports settled
    gcall,            \* tasks running a paid tool through payment_gate
    gstat,            \* history of the gate, per (session_id, day)
    now,              \* chrono::Utc::now().timestamp()
    profile_ttl,      \* Cache.profile_ttl
    relay_ttl,        \* Cache.relay_ttl
    profiles,         \* table profiles: pubkey -> row
    relay_info,       \* table relay_info: relay_url -> row
    ccall,            \* tasks calling the cache
    plast,            \* history: the row the last executed set_profile wrote, per pubkey
    secret,           \* L402Manager.secret
    token,            \* the token presented to verify_token, and how it was made
    vres,             \* the result of verify_token
    call,             \* a helper function under check and its arguments
    ret,              \* what the helper function returned
    wcall,            \* tasks calling the gateway or the L402 challenge endpoint
    whist,            \* history of the gateway, by payment hash
    transport,        \* config.server.transport of the running process
    epoch,            \* the number of restarts so far
    session_counter,  \* SharedState.session_counter of the running process
    sessions,         \* the server instances of the running process
    nconn,            \* the MCP connections opened so far, over all processes
    year,             \* the calendar year, counted from the first start
    scall,            \* tasks creating sessions or calling the limiter
    squota,           \* history of the limiter, per (connection, year, day)
    sused             \* history of the limiter, per (session id, year, day)

storeVars == <<calls_per_day, rate_limits, ncalls>>
rateVars == <<rcall, rstat>>
gateVars == <<nwc_configured, today, pending_invoices, wallet, settled, gcall, gstat>>
cacheVars == <<now, profile_ttl, relay_ttl, profiles, relay_info, ccall, plast>>
l402Vars == <<secret, token, vres>>
fnVars == <<call, ret>>
gwVars == <<wcall, whist>>
sessVars == <<transport, epoch, session_counter, sessions, nconn, year, scall, squota, sused>>
extVars == <<fnVars, gwVars, sessVars>>
baseVars == <<storeVars, rateVars, gateVars, cacheVars, l402Vars>>
notFnVars == <<baseVars, gwVars, sessVars>>
notGwVars == <<storeVars, rateVars, cacheVars, l402Vars, fnVars, sessVars>>
notSessVars == <<rateVars, cacheVars, l402Vars, fnVars, gwVars, nwc_configured, pending_invoices,
                 wallet, settled, gcall, gstat>>
vars == <<storeVars, rateVars, gateVars, cacheVars, l402Vars, extVars>>

\* no helper function called, nothing returned
NoCall == [fn |-> "none"]
NoRet == [kind |-> "none"]

(***************************************************************************)
(* Table rate_limits.  PRIMARY KEY (client_id, day_ordinal); a missing row *)
(* is NoRow.                                                               *)
(***************************************************************************)
NoRow == -1
RateKeys == Clients \X Days

HasRow(tbl, c, d) == tbl[<<c, d>>] # NoRow

\* INSERT OR REPLACE instead of INSERT OR IGNORE: an existing row is reset
InsertOrReplace(tbl, c, d) == [tbl EXCEPT ![<<c, d>>] = 0]

\* INSERT OR IGNORE INTO rate_limits (client_id, day_ordinal, count) VALUES (?, ?, 0)
InsertOrIgnore(tbl, c, d) ==
    IF HasRow(tbl, c, d) THEN tbl ELSE [tbl EXCEPT ![<<c, d>>] = 0]

\* count <= ? instead of count < ?
UpdateMatchesLe(tbl, c, d, limit) == HasRow(tbl, c, d) /\ tbl[<<c, d>>] <= limit

\* the WHERE clause of the conditional UPDATE
UpdateMatches(tbl, c, d, limit) == HasRow(tbl, c, d) /\ tbl[<<c, d>>] < limit

\* UPDATE rate_limits SET count = count + 1 WHERE client_id = ? AND day_ordinal = ? AND count < ?
ConditionalUpdate(tbl, c, d, limit) ==
    IF UpdateMatches(tbl, c, d, limit)
    THEN [tbl EXCEPT ![<<c, d>>] = @ + 1]
    ELSE tbl

\* result.rows_affected()
RowsAffected(tbl, c, d, limit) == IF UpdateMatches(tbl, c, d, limit) THEN 1 ELSE 0

\* the day predicate forgotten: the first row of the client, whatever its day
GetRateCountAnyDay(tbl, c, d) ==
    IF \E e \in Days : HasRow(tbl, c, e)
    THEN tbl[<<c, CHOOSE e \in Days : HasRow(tbl, c, e) /\ \A f \in Days : HasRow(tbl, c, f) => e <= f>>]
    ELSE 0

\* SELECT count FROM rate_limits WHERE client_id = ? AND day_ordinal = ?; 0 if no row
GetRateCount(tbl, c, d) == IF HasRow(tbl, c, d) THEN tbl[<<c, d>>] ELSE 0

(***************************************************************************)
(* Cache::check_and_increment_rate, called directly (as the unit tests do) *)
(* by concurrent tasks.  res is "true", "false" or "err" (the `?` of       *)
(* either statement).  pre, post and seen record the stored count before   *)
(* and after the UPDATE and after the INSERT.                              *)
(***************************************************************************)
RIdle == [pc |-> "idle", client |-> "", day |-> 0, res |-> "none",
          pre |-> 0, post |-> 0, seen |-> NoRow]

RStat0 == [calls |-> 0, trues |-> 0, falses |-> 0, errs |-> 0]

RateCall(p, c, d) ==
    /\ rcall[p].pc \in {"idle", "done"}
    /\ ncalls < MaxCalls
    /\ ncalls' = ncalls + 1
    /\ rcall' = [rcall EXCEPT ![p] = [RIdle EXCEPT !.pc = "insert", !.client = c, !.day = d]]
    /\ rstat' = [rstat EXCEPT ![<<c, d>>].calls = @ + 1]
    /\ UNCHANGED <<calls_per_day, rate_limits, gateVars, cacheVars, l402Vars, extVars>>

RateInsert(p) ==
    LET c == rcall[p].client
        d == rcall[p].day
        tbl == InsertOrIgnore(rate_limits, c, d)
    IN /\ rcall[p].pc = "insert"
       /\ rate_limits' = tbl
       /\ rcall' = [rcall EXCEPT ![p].pc = "update", ![p].seen = tbl[<<c, d>>]]
       /\ UNCHANGED <<calls_per_day, ncalls, rstat, gateVars, cacheVars, l402Vars, extVars>>

RateUpdate(p) ==
    LET c == rcall[p].client
        d == rcall[p].day
        ok == RowsAffected(rate_limits, c, d, calls_per_day) > 0
    IN /\ rcall[p].pc = "update"
       /\ rate_limits' = ConditionalUpdate(rate_limits, c, d, calls_per_day)
       /\ rcall' = [rcall EXCEPT ![p].pc = "done",
                                 ![p].res = IF ok THEN "true" ELSE "false",
                                 ![p].pre = rate_limits[<<c, d>>],
                                 ![p].post = rate_limits'[<<c, d>>]]
       /\ rstat' = [rstat EXCEPT ![<<c, d>>].trues = IF ok THEN @ + 1 ELSE @,
                                 ![<<c, d>>].falses = IF ok THEN @ ELSE @ + 1]
       /\ UNCHANGED <<calls_per_day, ncalls, gateVars, cacheVars, l402Vars, extVars>>

\* a statement fails (sqlx::Error): the `?` returns Err, nothing is written
RateFault(p) ==
    /\ rcall[p].pc \in {"insert", "update"}
    /\ rcall' = [rcall EXCEPT ![p].pc = "done", ![p].res = "err"]
    /\ rstat' = [rstat EXCEPT ![<<rcall[p].client, rcall[p].day>>].errs = @ + 1]
    /\ UNCHANGED <<storeVars, gateVars, cacheVars, l402Vars, extVars>>

NextRate ==
    \E p \in Procs :
        \/ \E c \in Clients, d \in Days : RateCall(p, c, d)
        \/ RateInsert(p)
        \/ RateUpdate(p)
        \/ RateFault(p)

(***************************************************************************)
(* Pricing (server.rs).  NoParam is an absent Option.                      *)
(***************************************************************************)
NoParam == -1
NoHash == 0

PaidTools == {"search_events", "relay_discovery", "trending_notes",
              "get_follower_graph", "zap_analytics"}

\* config.pricing, with the prices the tool descriptions quote
Pricing == [search_events_base |-> 10, relay_discovery |-> 20, trending_notes |-> 20,
            get_follower_graph |-> 50, zap_analytics |-> 50]

\* the values of `limit` (search_events) and `depth` (get_follower_graph) a call may carry
ParamsOf(tool) ==
    CASE tool = "search_events" -> {NoParam, 51}
      [] tool = "get_follower_graph" -> {NoParam, 3}
      [] OTHER -> {NoParam}

\* what a task calls: task 1 any paid tool in any session, the competing task 2 one
\* tool in one session
ToolsOf(p) == IF p = 1 THEN PaidTools ELSE {"relay_discovery"}
SessionsOf(p) == IF p = 1 THEN Clients ELSE {"http-0"}

\* the surcharges as alternatives: 15 above 20, 25 (not 40) above 50
calculate_price_either(limit) ==
    Pricing.search_events_base
        + (IF limit # NoParam /\ limit > 50 THEN 25
           ELSE IF limit # NoParam /\ limit > 20 THEN 15 ELSE 0)

calculate_price(limit) ==
    Pricing.search_events_base
        + (IF limit # NoParam /\ limit > 20 THEN 15 ELSE 0)
        + (IF limit # NoParam /\ limit > 50 THEN 25 ELSE 0)

\* params.depth.unwrap_or(1).clamp(1, 2)
ClampDepth(depth) ==
    LET d == IF depth = NoParam THEN 1 ELSE depth
    IN IF d < 1 THEN 1 ELSE IF d > 2 THEN 2 ELSE d

calculate_follower_graph_price(depth) ==
    IF depth >= 2 THEN Pricing.get_follower_graph * 2 ELSE Pricing.get_follower_graph

\* the `amount` each paid tool hands to payment_gate
Amount(tool, param) ==
    CASE tool = "search_events" -> calculate_price(param)
      [] tool = "relay_discovery" -> Pricing.relay_discovery
      [] tool = "trending_notes" -> Pricing.trending_notes
      [] tool = "get_follower_graph" -> calculate_follower_graph_price(ClampDepth(param))
      [] tool = "zap_analytics" -> Pricing.zap_analytics

(***************************************************************************)
(* NwcGateway and the wallet behind it.  The wallet numbers its invoices:  *)
(* invoice h has payment hash h.                                           *)
(***************************************************************************)
Hashes == {1}

PendingInsert(map, h, rec) ==
    [k \in DOMAIN map \cup {h} |-> IF k = h THEN rec ELSE map[k]]

\* a map that forgets nothing
PendingKeep(map, h) == map

PendingRemove(map, h) == [k \in DOMAIN map \ {h} |-> map[k]]

\* response.settled_at.is_none(): the test inverted
IsSettledInverted(h) == h \notin settled

\* response.settled_at.is_some()
IsSettled(h) == h \in settled

(***************************************************************************)
(* A paid tool call: the handler computes the amount, runs payment_gate    *)
(* and, on Proceed, the tool body.                                         *)
(*   gate: the gate's result (Proceed, EarlyReturn, Err), ret: the tool    *)
(*   result (Ok, Err), resp: the JSON payload of an EarlyReturn.           *)
(* History kept with the call: lookup (what the wallet answered), fault    *)
(* (check_and_increment_rate returned Err), rank_all / rank_ok (the call's *)
(* place among the session's calls of the day that reached the counter,    *)
(* all of them / those whose statements succeeded), stored (the stored     *)
(* count of the session for today when get_current_count read it),         *)
(* read_fault (that read failed), made (the hash of the invoice the wallet *)
(* issued for this call).                                                  *)
(***************************************************************************)
NoResp == [kind |-> "none", tool_name |-> "", amount_sats |-> 0, invoice |-> <<>>,
           payment_hash |-> NoHash, calls_used |-> 0, calls_limit |-> 0,
           payment_available |-> FALSE]

GIdle == [pc |-> "idle", session |-> "", tool |-> "", param |-> NoParam, hash |-> NoHash,
          amount |-> 0, day |-> 0, gate |-> "none", msg |-> "", ret |-> "none",
          resp |-> NoResp, body |-> FALSE,
          lookup |-> "none", fault |-> FALSE, under |-> "none", rank_all |-> 0, rank_ok |-> 0,
          stored |-> 0, read_fault |-> FALSE, made |-> NoHash]

GStat0 == [nth_all |-> 0, nth_ok |-> 0]

GateErr(p, m) ==
    [gcall EXCEPT ![p].pc = "done", ![p].gate = "Err", ![p].msg = m, ![p].ret = "Err"]

GateProceed(p) == [gcall EXCEPT ![p].pc = "body", ![p].gate = "Proceed"]

\* a gate that counts the call before it looks at the payment hash
GateCallCounted(p, s, tool, param, hash) ==
    /\ gcall[p].pc \in {"idle", "done"}
    /\ ncalls < MaxCalls
    /\ ncalls' = ncalls + 1
    /\ gcall' = [gcall EXCEPT ![p] =
          [GIdle EXCEPT !.session = s, !.tool = tool, !.param = param, !.hash = hash,
                        !.amount = Amount(tool, param), !.pc = "insert", !.day = today]]
    /\ UNCHANGED <<calls_per_day, rate_limits, rateVars, cacheVars, l402Vars, nwc_configured, today,
                   pending_invoices, wallet, settled, gstat, extVars>>

\* the handler's entry up to the gate's first await
GateCall(p, s, tool, param, hash) ==
    LET c0 == [GIdle EXCEPT !.session = s, !.tool = tool, !.param = param, !.hash = hash,
                            !.amount = Amount(tool, param)]
    IN /\ gcall[p].pc \in {"idle", "done"}
       /\ ncalls < MaxCalls
       /\ ncalls' = ncalls + 1
       /\ gcall' = [gcall EXCEPT ![p] =
             IF hash # NoHash
             THEN IF nwc_configured
                  THEN [c0 EXCEPT !.pc = "verify"]
                  ELSE [c0 EXCEPT !.pc = "done", !.gate = "Err", !.ret = "Err",
                                  !.msg = "Payment system not configured"]
             ELSE [c0 EXCEPT !.pc = "insert", !.day = today]]
       /\ UNCHANGED <<calls_per_day, rate_limits, rateVars, cacheVars, l402Vars, nwc_configured, today,
                      pending_invoices, wallet, settled, gstat, extVars>>

\* NwcGateway::verify_payment: the wallet answers the lookup
GateVerify(p) ==
    LET h == gcall[p].hash
        paid == IsSettled(h)
    IN /\ gcall[p].pc = "verify"
       /\ h <= Len(wallet)
       /\ pending_invoices' = IF paid THEN PendingRemove(pending_invoices, h)
                              ELSE pending_invoices
       /\ gcall' = [(IF paid THEN GateProceed(p)
                     ELSE GateErr(p, "Payment not confirmed. Invoice may be unpaid or expired."))
                    EXCEPT ![p].lookup = IF h \in settled THEN "settled" ELSE "unsettled"]
       /\ UNCHANGED <<storeVars, rateVars, cacheVars, l402Vars, nwc_configured, today, wallet, settled, gstat, extVars>>

\* NwcGateway::verify_payment: lookup_invoice fails (RPC error, unknown hash)
GateVerifyFail(p) ==
    /\ gcall[p].pc = "verify"
    /\ gcall' = [GateErr(p, "NWC lookup_invoice failed") EXCEPT ![p].lookup = "fail"]
    /\ UNCHANGED <<storeVars, rateVars, cacheVars, l402Vars, nwc_configured, today, pending_invoices,
                   wallet, settled, gstat, extVars>>

\* check_and_increment_rate: the INSERT OR IGNORE
GateInsert(p) ==
    /\ gcall[p].pc = "insert"
    /\ rate_limits' = InsertOrIgnore(rate_limits, gcall[p].session, gcall[p].day)
    /\ gcall' = [gcall EXCEPT ![p].pc = "update"]
    /\ UNCHANGED <<calls_per_day, ncalls, rateVars, cacheVars, l402Vars, nwc_configured, today,
                   pending_invoices, wallet, settled, gstat, extVars>>

\* fail-closed: the call is denied when the store returned Err
FailClosed == FALSE

\* fail-open: the value check_and_increment returns when the store returned Err
FailOpen == TRUE

\* what payment_gate does with check_and_increment's answer
AfterCheck(p, under_limit) ==
    IF under_limit THEN GateProceed(p)
    ELSE IF nwc_configured THEN [gcall EXCEPT ![p].pc = "invoice"]
    ELSE [gcall EXCEPT ![p].pc = "count"]

\* FreeTierLimiter::check_and_increment: Ok(allowed) => allowed, Err(e) => true
check_and_increment(result) ==
    IF result = "Err" THEN FailOpen ELSE result = "Ok(true)"

\* check_and_increment_rate: the conditional UPDATE, and check_and_increment's Ok arm
GateUpdate(p) ==
    LET s == gcall[p].session
        d == gcall[p].day
        allowed == RowsAffected(rate_limits, s, d, calls_per_day) > 0
        under_limit == check_and_increment(IF allowed THEN "Ok(true)" ELSE "Ok(false)")
        k == <<s, d>>
    IN /\ gcall[p].pc = "update"
       /\ rate_limits' = ConditionalUpdate(rate_limits, s, d, calls_per_day)
       /\ gstat' = [gstat EXCEPT ![k].nth_all = @ + 1, ![k].nth_ok = @ + 1]
       /\ gcall' = [AfterCheck(p, under_limit) EXCEPT
                       ![p].under = IF under_limit THEN "true" ELSE "false",
                       ![p].rank_all = gstat[k].nth_all + 1,
                       ![p].rank_ok = gstat[k].nth_ok + 1]
       /\ UNCHANGED <<calls_per_day, ncalls, rateVars, cacheVars, l402Vars, nwc_configured, today,
                      pending_invoices, wallet, settled, extVars>>

\* either statement fails: check_and_increment's Err arm
GateStoreFault(p) ==
    LET k == <<gcall[p].session, gcall[p].day>>
        under_limit == check_and_increment("Err")
    IN /\ gcall[p].pc \in {"insert", "update"}
       /\ gstat' = [gstat EXCEPT ![k].nth_all = @ + 1]
       /\ gcall' = [AfterCheck(p, under_limit) EXCEPT
                       ![p].fault = TRUE,
                       ![p].under = IF under_limit THEN "true" ELSE "false",
                       ![p].rank_all = gstat[k].nth_all + 1]
       /\ UNCHANGED <<storeVars, rateVars, cacheVars, l402Vars, nwc_configured, today,
                      pending_invoices, wallet, settled, extVars>>

\* amount_sats filled with the invoice's millisatoshi amount
PaymentRequiredResponseMsat(tool_name, amount, inv, ph) ==
    [kind |-> "payment_required", tool_name |-> tool_name, amount_sats |-> amount * 1000,
     invoice |-> inv, payment_hash |-> ph, calls_used |-> 0, calls_limit |-> 0,
     payment_available |-> FALSE]

\* the PaymentRequiredResponse payment_gate builds
PaymentRequiredResponse(tool_name, amount, inv, ph) ==
    [NoResp EXCEPT !.kind = "payment_required", !.tool_name = tool_name,
                   !.amount_sats = amount, !.invoice = inv, !.payment_hash = ph]

\* NwcGateway::create_invoice succeeds: the wallet issues invoice h
GateInvoice(p) ==
    LET h == Len(wallet) + 1
        c == gcall[p]
    IN /\ c.pc = "invoice"
       /\ h \in Hashes
       /\ wallet' = Append(wallet, [amount_msat |-> c.amount * 1000,
                                    description |-> <<"nostr-intel: ", c.tool>>,
                                    bolt11 |-> <<"lnbc", h>>])
       /\ pending_invoices' = PendingInsert(pending_invoices, h,
                                 [tool_name |-> c.tool, amount_sats |-> c.amount])
       /\ gcall' = [gcall EXCEPT ![p].pc = "done", ![p].gate = "EarlyReturn",
                                 ![p].ret = "Ok", ![p].made = h,
                                 ![p].resp = PaymentRequiredResponse(c.tool, c.amount,
                                                                     <<"lnbc", h>>, h)]
       /\ UNCHANGED <<storeVars, rateVars, cacheVars, l402Vars, nwc_configured, today, settled, gstat, extVars>>

\* NwcGateway::create_invoice fails: make_invoice errs, or its reply has no payment_hash
GateInvoiceFail(p) ==
    /\ gcall[p].pc = "invoice"
    /\ \E m \in {"NWC make_invoice failed", "No payment_hash in make_invoice response"} :
          gcall' = GateErr(p, m)
    /\ UNCHANGED <<storeVars, rateVars, cacheVars, l402Vars, nwc_configured, today, pending_invoices,
                   wallet, settled, gstat, extVars>>

\* FreeTierLimiter::get_current_count: 0 when the read fails
get_current_count(tbl, s, d, failed) == IF failed THEN 0 ELSE GetRateCount(tbl, s, d)

\* the FreeTierExhaustedResponse payment_gate builds
FreeTierExhaustedResponse(calls_used) ==
    [NoResp EXCEPT !.kind = "free_tier_exhausted", !.calls_used = calls_used,
                   !.calls_limit = calls_per_day, !.payment_available = FALSE]

\* the None arm of payment_gate: current_day() is read again, then the count
GateCount(p) ==
    /\ gcall[p].pc = "count"
    /\ \E failed \in BOOLEAN :
          gcall' = [gcall EXCEPT
              ![p].pc = "done", ![p].gate = "EarlyReturn", ![p].ret = "Ok",
              ![p].read_fault = failed,
              ![p].stored = IF rate_limits[<<gcall[p].session, today>>] = NoRow THEN 0
                            ELSE rate_limits[<<gcall[p].session, today>>],
              ![p].resp = FreeTierExhaustedResponse(
                              get_current_count(rate_limits, gcall[p].session, today, failed))]
    /\ UNCHANGED <<storeVars, rateVars, cacheVars, l402Vars, nwc_configured, today, pending_invoices,
                   wallet, settled, gstat, extVars>>

\* a tool body that gives the unit back when it fails
ToolBodyRefund(p) ==
    LET k == <<gcall[p].session, gcall[p].day>>
    IN /\ gcall[p].pc = "body"
       /\ \E r \in {"Ok", "Err"} :
             /\ gcall' = [gcall EXCEPT ![p].pc = "done", ![p].body = TRUE, ![p].ret = r]
             /\ rate_limits' = IF r = "Err" /\ gcall[p].hash = NoHash /\ ~gcall[p].fault
                               THEN [rate_limits EXCEPT ![k] = @ - 1]
                               ELSE rate_limits
       /\ UNCHANGED <<calls_per_day, ncalls, rateVars, cacheVars, l402Vars, nwc_configured, today,
                      pending_invoices, wallet, settled, gstat, extVars>>

\* the tool body after Proceed: it returns its JSON or fails (bad argument, relay error)
ToolBody(p) ==
    /\ gcall[p].pc = "body"
    /\ \E r \in {"Ok", "Err"} :
          gcall' = [gcall EXCEPT ![p].pc = "done", ![p].body = TRUE, ![p].ret = r]
    /\ UNCHANGED <<storeVars, rateVars, cacheVars, l402Vars, nwc_configured, today, pending_invoices,
                   wallet, settled, gstat, extVars>>

\* the payer pays an invoice the wallet issued
WalletSettle(h) ==
    /\ h \in 1..Len(wallet)
    /\ h \notin settled
    /\ settled' = settled \cup {h}
    /\ UNCHANGED <<storeVars, rateVars, cacheVars, l402Vars, nwc_configured, today, pending_invoices,
                   wallet, gcall, gstat, extVars>>

\* midnight UTC
DayChange ==
    /\ today + 1 \in Days
    /\ today' = today + 1
    /\ UNCHANGED <<storeVars, rateVars, cacheVars, l402Vars, nwc_configured, pending_invoices,
                   wallet, settled, gcall, gstat, extVars>>

NextGate ==
    \/ \E p \in Tasks :
          \/ \E s \in SessionsOf(p), tool \in ToolsOf(p), hash \in {NoHash} \cup Hashes :
                \E param \in ParamsOf(tool) : GateCall(p, s, tool, param, hash)
          \/ GateVerify(p)
          \/ GateVerifyFail(p)
          \/ GateInsert(p)
          \/ GateUpdate(p)
          \/ GateStoreFault(p)
          \/ GateInvoice(p)
          \/ GateInvoiceFail(p)
          \/ GateCount(p)
          \/ ToolBody(p)
    \/ \E h \in Hashes : WalletSettle(h)
    \/ DayChange

(***************************************************************************)
(* The profile and relay-info cache (cache.rs).  A row carries the cached  *)
(* value (data), cached_at and expires_at.  set_* and get_* read the clock *)
(* and then run one statement; cleanup_expired reads the clock and runs    *)
(* three DELETEs.  The clock may advance between any two steps.            *)
(* History kept with a lookup: t (the clock it read), x (the clock when    *)
(* its SELECT ran), last (the row the last executed set_profile had        *)
(* written for the key when the SELECT ran).                               *)
(***************************************************************************)
CTasks == {1, 2}
Pubkeys == {"pk1", "pk2"}
Relays == {"wss://r1"}
\* the profile a task stores: each task its own
ValueOf(p) == p
Ttls == 0..MaxTtl

NoEntry == [data |-> 0, cached_at |-> 0, expires_at |-> 0]

\* the row set_* binds: cached_at = now, expires_at = now + ttl
Entry(d, t, ttl) == [data |-> d, cached_at |-> t, expires_at |-> t + ttl]

\* expires_at >= ? instead of expires_at > ?
UnexpiredOrAt(row, t) == row.expires_at >= t

\* the predicate expires_at > ? of the SELECTs
Unexpired(row, t) == row.expires_at > t

\* SELECT ... WHERE key = ? AND expires_at > ?  (fetch_optional)
SelectUnexpired(tbl, k, t) ==
    IF tbl[k] # NoEntry /\ Unexpired(tbl[k], t) THEN tbl[k] ELSE NoEntry

\* INSERT OR REPLACE INTO ... VALUES (..., cached_at, expires_at)
InsertOrReplaceEntry(tbl, k, row) == [tbl EXCEPT ![k] = row]

\* DELETE FROM ... WHERE expires_at <= ?
DeleteExpiredOrAt(tbl, t) ==
    [k \in DOMAIN tbl |-> IF tbl[k] # NoEntry /\ tbl[k].expires_at <= t THEN NoEntry ELSE tbl[k]]

\* DELETE FROM ... WHERE expires_at < ?
DeleteExpired(tbl, t) ==
    [k \in DOMAIN tbl |-> IF tbl[k] # NoEntry /\ tbl[k].expires_at < t THEN NoEntry ELSE tbl[k]]

\* DELETE FROM rate_limits WHERE day_ordinal < ?
DeleteOldDays(tbl, d) ==
    [k \in DOMAIN tbl |-> IF k[2] < d THEN NoRow ELSE tbl[k]]

CIdle == [pc |-> "idle", op |-> "none", key |-> "", data |-> 0, t |-> 0,
          res |-> "none", row |-> NoEntry, x |-> 0, last |-> NoEntry]

\* what a task calls: task 1 anything on any key, the competing task 2 set_profile
\* on one key and cleanup_expired
OpsOf(p) == IF p = 1 THEN {"set_profile", "get_profile", "set_relay_info",
                           "get_relay_info", "cleanup_expired"}
            ELSE {"set_profile", "cleanup_expired"}
PubkeysOf(p) == IF p = 1 THEN Pubkeys ELSE {"pk1"}

\* a finished call that returns no row keeps only its result
CDone(op, res) == [CIdle EXCEPT !.pc = "done", !.op = op, !.res = res]

CacheStart(p, op, k, d) ==
    /\ ccall[p].pc \in {"idle", "done"}
    /\ ncalls < MaxOps
    /\ ncalls' = ncalls + 1
    /\ ccall' = [ccall EXCEPT ![p] = [CIdle EXCEPT !.pc = op, !.op = op, !.key = k,
                                                   !.data = d, !.t = now]]
    /\ UNCHANGED <<calls_per_day, rate_limits, rateVars, gateVars, l402Vars, now, profile_ttl,
                   relay_ttl, profiles, relay_info, plast, extVars>>

\* Cache::set_profile up to its statement: let now = Self::now()
SetProfileStart(p, k, d) == "set_profile" \in OpsOf(p) /\ CacheStart(p, "set_profile", k, d)

\* Cache::set_profile: the INSERT OR REPLACE
SetProfileExec(p) ==
    LET c == ccall[p]
        row == Entry(c.data, c.t, profile_ttl)
    IN /\ c.pc = "set_profile"
       /\ profiles' = InsertOrReplaceEntry(profiles, c.key, row)
       /\ plast' = [plast EXCEPT ![c.key] = row]
       /\ ccall' = [ccall EXCEPT ![p] = CDone(c.op, "ok")]
       /\ UNCHANGED <<storeVars, rateVars, gateVars, l402Vars, now, profile_ttl, relay_ttl, relay_info, extVars>>

\* Cache::get_profile up to its statement: let now = Self::now()
GetProfileStart(p, k) == "get_profile" \in OpsOf(p) /\ CacheStart(p, "get_profile", k, 0)

\* Cache::get_profile: the SELECT and the mapping of the row
GetProfileExec(p) ==
    LET c == ccall[p]
        row == SelectUnexpired(profiles, c.key, c.t)
    IN /\ c.pc = "get_profile"
       /\ ccall' = [ccall EXCEPT ![p].pc = "done",
                                 ![p].res = IF row = NoEntry THEN "empty" ELSE "some",
                                 ![p].row = row, ![p].x = now, ![p].last = plast[c.key]]
       /\ UNCHANGED <<storeVars, rateVars, gateVars, l402Vars, now, profile_ttl, relay_ttl,
                      profiles, relay_info, plast, extVars>>

\* Cache::set_relay_info up to its statement
SetRelayInfoStart(p, k, d) ==
    "set_relay_info" \in OpsOf(p) /\ CacheStart(p, "set_relay_info", k, d)

\* Cache::set_relay_info: the INSERT OR REPLACE
SetRelayInfoExec(p) ==
    LET c == ccall[p]
    IN /\ c.pc = "set_relay_info"
       /\ relay_info' = InsertOrReplaceEntry(relay_info, c.key, Entry(c.data, c.t, relay_ttl))
       /\ ccall' = [ccall EXCEPT ![p] = CDone(c.op, "ok")]
       /\ UNCHANGED <<storeVars, rateVars, gateVars, l402Vars, now, profile_ttl, relay_ttl,
                      profiles, plast, extVars>>

\* Cache::get_relay_info up to its statement
GetRelayInfoStart(p, k) ==
    "get_relay_info" \in OpsOf(p) /\ CacheStart(p, "get_relay_info", k, 0)

\* Cache::get_relay_info: the SELECT and the mapping of the row
GetRelayInfoExec(p) ==
    LET c == ccall[p]
        row == SelectUnexpired(relay_info, c.key, c.t)
    IN /\ c.pc = "get_relay_info"
       /\ ccall' = [ccall EXCEPT ![p].pc = "done",
                                 ![p].res = IF row = NoEntry THEN "empty" ELSE "some",
                                 ![p].row = row, ![p].x = now]
       /\ UNCHANGED <<storeVars, rateVars, gateVars, l402Vars, now, profile_ttl, relay_ttl,
                      profiles, relay_info, plast, extVars>>

\* Cache::cleanup_expired up to its first statement: let now = Self::now()
CleanupStart(p) ==
    /\ "cleanup_expired" \in OpsOf(p)
    /\ ccall[p].pc \in {"idle", "done"}
    /\ ncalls < MaxOps
    /\ ncalls' = ncalls + 1
    /\ ccall' = [ccall EXCEPT ![p] = [CIdle EXCEPT !.pc = "delete_profiles",
                                                   !.op = "cleanup_expired", !.t = now]]
    /\ UNCHANGED <<calls_per_day, rate_limits, rateVars, gateVars, l402Vars, now, profile_ttl,
                   relay_ttl, profiles, relay_info, plast, extVars>>

\* DELETE FROM profiles WHERE expires_at < ?
CleanupProfiles(p) ==
    /\ ccall[p].pc = "delete_profiles"
    /\ profiles' = DeleteExpired(profiles, ccall[p].t)
    /\ ccall' = [ccall EXCEPT ![p].pc = "delete_relay_info"]
    /\ UNCHANGED <<storeVars, rateVars, gateVars, l402Vars, now, profile_ttl, relay_ttl,
                   relay_info, plast, extVars>>

\* DELETE FROM relay_info WHERE expires_at < ?
CleanupRelayInfo(p) ==
    /\ ccall[p].pc = "delete_relay_info"
    /\ relay_info' = DeleteExpired(relay_info, ccall[p].t)
    /\ ccall' = [ccall EXCEPT ![p].pc = "delete_rate_limits"]
    /\ UNCHANGED <<storeVars, rateVars, gateVars, l402Vars, now, profile_ttl, relay_ttl,
                   profiles, plast, extVars>>

\* let today = current_day_ordinal(); DELETE FROM rate_limits WHERE day_ordinal < ?
CleanupRateLimits(p) ==
    /\ ccall[p].pc = "delete_rate_limits"
    /\ rate_limits' = DeleteOldDays(rate_limits, today)
    /\ ccall' = [ccall EXCEPT ![p] = CDone(ccall[p].op, "ok")]
    /\ UNCHANGED <<calls_per_day, ncalls, rateVars, gateVars, l402Vars, now, profile_ttl, relay_ttl,
                   profiles, relay_info, plast, extVars>>

\* the statement a cache call is at fails: the `?` returns Err, nothing is written
CacheFault(p) ==
    /\ ccall[p].pc \notin {"idle", "done"}
    /\ ccall' = [ccall EXCEPT ![p] = CDone(ccall[p].op, "err")]
    /\ UNCHANGED <<storeVars, rateVars, gateVars, l402Vars, now, profile_ttl, relay_ttl,
                   profiles, relay_info, plast, extVars>>

\* a second passes
Tick ==
    /\ now < MaxTime
    /\ now' = now + 1
    /\ UNCHANGED <<storeVars, rateVars, gateVars, l402Vars, profile_ttl, relay_ttl,
                   profiles, relay_info, ccall, plast, extVars>>

NextCache ==
    \/ \E p \in CTasks :
          \/ \E k \in PubkeysOf(p) : SetProfileStart(p, k, ValueOf(p))
          \/ SetProfileExec(p)
          \/ \E k \in PubkeysOf(p) : GetProfileStart(p, k)
          \/ GetProfileExec(p)
          \/ \E k \in Relays : SetRelayInfoStart(p, k, ValueOf(p))
          \/ SetRelayInfoExec(p)
          \/ \E k \in Relays : GetRelayInfoStart(p, k)
          \/ GetRelayInfoExec(p)
          \/ CleanupStart(p)
          \/ CleanupProfiles(p)
          \/ CleanupRelayInfo(p)
          \/ CleanupRateLimits(p)
          \/ CacheFault(p)
    \/ Tick

(***************************************************************************)
(* L402 tokens (l402.rs).  Strings and tokens are sequences of bytes.      *)
(* serde_json, base64 and hex are modelled by what they compute.  HMAC-    *)
(* SHA256 is idealised: its output stands for (key, message), so that two  *)
(* MACs are equal exactly when key and message bytes are equal.            *)
(***************************************************************************)
\* hex::encode: two lowercase hex digits per byte
HexDigit(n) == IF n < 10 THEN 48 + n ELSE 87 + n

HexEncode(b) ==
    [i \in 1..(2 * Len(b)) |->
        IF i % 2 = 1 THEN HexDigit(b[(i + 1) \div 2] \div 16) ELSE HexDigit(b[i \div 2] % 16)]

\* u64::to_be_bytes, for values below 2^31
ToBeBytes(e) ==
    <<0, 0, 0, 0, (e \div 16777216) % 256, (e \div 65536) % 256, (e \div 256) % 256, e % 256>>

\* HmacSha256 over the bytes fed by mac.update, idealised
Hmac(key, msg) == <<Len(key)>> \o key \o msg

\* L402Manager::sign
sign(key, payment_hash, tool, expires) ==
    HexEncode(Hmac(key, payment_hash \o tool \o ToBeBytes(expires)))

RECURSIVE Flatten(_, _, _)
\* the concatenation of the sequences ss[lo], ..., ss[hi]
Flatten(ss, lo, hi) ==
    IF lo > hi THEN <<>>
    ELSE IF lo = hi THEN ss[lo]
    ELSE Flatten(ss, lo, (lo + hi) \div 2) \o Flatten(ss, (lo + hi) \div 2 + 1, hi)

RECURSIVE Itoa(_)
\* the decimal digits of an unsigned integer
Itoa(n) == IF n < 10 THEN <<48 + n>> ELSE Itoa(n \div 10) \o <<48 + (n % 10)>>

\* a string byte written without escaping
EscByteRaw(b) == <<b>>

\* serde_json's escaping of one byte of a string
EscByte(b) ==
    CASE b = 34 -> <<92, 34>>
      [] b = 92 -> <<92, 92>>
      [] b = 8 -> <<92, 98>>
      [] b = 9 -> <<92, 116>>
      [] b = 10 -> <<92, 110>>
      [] b = 12 -> <<92, 102>>
      [] b = 13 -> <<92, 114>>
      [] b < 32 /\ b \notin {8, 9, 10, 12, 13} ->
            <<92, 117, 48, 48, HexDigit(b \div 16), HexDigit(b % 16)>>
      [] OTHER -> <<b>>

\* a JSON string literal
JsonString(s) == <<34>> \o Flatten([i \in 1..Len(s) |-> EscByte(s[i])], 1, Len(s)) \o <<34>>

\* the fixed text of a serialised L402TokenData
KeyPaymentHash == <<123, 34, 112, 97, 121, 109, 101, 110, 116, 95, 104, 97, 115, 104, 34, 58>>
KeyCaveatsTool == <<44, 34, 99, 97, 118, 101, 97, 116, 115, 34, 58, 123, 34, 116, 111, 111, 108, 34, 58>>
KeyExpires == <<44, 34, 101, 120, 112, 105, 114, 101, 115, 34, 58>>
KeySignature == <<125, 44, 34, 115, 105, 103, 110, 97, 116, 117, 114, 101, 34, 58>>
CloseObject == <<125>>

\* serde_json::to_string(&L402TokenData)
to_string(t) ==
    KeyPaymentHash \o JsonString(t.payment_hash)
        \o KeyCaveatsTool \o JsonString(t.tool)
        \o KeyExpires \o Itoa(t.expires)
        \o KeySignature \o JsonString(t.signature) \o CloseObject

\* BASE64_STANDARD: A-Z a-z 0-9 + /, padded with =
B64Char(v) ==
    IF v < 26 THEN 65 + v
    ELSE IF v < 52 THEN 71 + v
    ELSE IF v < 62 THEN v - 4
    ELSE IF v = 62 THEN 43 ELSE 47

B64Val(c) ==
    IF c >= 65 /\ c <= 90 THEN c - 65
    ELSE IF c >= 97 /\ c <= 122 THEN c - 71
    ELSE IF c >= 48 /\ c <= 57 THEN c + 4
    ELSE IF c = 43 THEN 62
    ELSE IF c = 47 THEN 63
    ELSE -1

\* BASE64_STANDARD.encode
Base64Encode(b) ==
    LET n == Len(b)
        at(j) == IF j <= n THEN b[j] ELSE 0
    IN [i \in 1..(4 * ((n + 2) \div 3)) |->
          LET g == (i - 1) \div 4
              k == (i - 1) % 4
              b0 == at(3 * g + 1)
              b1 == at(3 * g + 2)
              b2 == at(3 * g + 3)
          IN CASE k = 0 -> B64Char(b0 \div 4)
               [] k = 1 -> B64Char((b0 % 4) * 16 + b1 \div 16)
               [] k = 2 -> IF 3 * g + 2 > n THEN 61 ELSE B64Char((b1 % 16) * 4 + b2 \div 64)
               [] k = 3 -> IF 3 * g + 3 > n THEN 61 ELSE B64Char(b2 % 64)]

\* BASE64_STANDARD.decode: canonical padding required, no stray trailing bits
Base64Decode(s) ==
    LET n == Len(s)
        npad == IF n >= 1 /\ s[n] = 61
                THEN (IF n >= 2 /\ s[n - 1] = 61 THEN 2 ELSE 1)
                ELSE 0
        val(j) == IF j > n - npad THEN 0 ELSE B64Val(s[j])
        valid == /\ n % 4 = 0
                 /\ \A j \in 1..(n - npad) : B64Val(s[j]) >= 0
                 /\ npad = 1 => val(n - 1) % 4 = 0
                 /\ npad = 2 => val(n - 2) % 16 = 0
    IN IF ~valid THEN [ok |-> FALSE, bytes |-> <<>>]
       ELSE [ok |-> TRUE,
             bytes |-> [j \in 1..((n \div 4) * 3 - npad) |->
                 LET g == (j - 1) \div 3
                     k == (j - 1) % 3
                 IN CASE k = 0 -> val(4 * g + 1) * 4 + val(4 * g + 2) \div 16
                      [] k = 1 -> (val(4 * g + 2) % 16) * 16 + val(4 * g + 3) \div 4
                      [] k = 2 -> (val(4 * g + 3) % 4) * 64 + val(4 * g + 4)]]

\* the bytes at position i of b are the text lit
StartsWith(b, i, lit) ==
    /\ i + Len(lit) - 1 <= Len(b)
    /\ \A j \in 1..Len(lit) : b[i + j - 1] = lit[j]

ParseFail == [ok |-> FALSE, val |-> <<>>, next |-> 0]

RECURSIVE BackslashRun(_, _, _)
\* the number of backslashes that immediately precede position j in the string
\* body that starts at position i
BackslashRun(b, i, j) ==
    IF j - 1 >= i /\ b[j - 1] = 92 THEN 1 + BackslashRun(b, i, j - 1) ELSE 0

\* the byte at position j follows an escaping backslash
Escaped(b, i, j) == BackslashRun(b, i, j) % 2 = 1

\* the character an escape sequence stands for
Unescape(c) ==
    CASE c = 98 -> 8
      [] c = 116 -> 9
      [] c = 110 -> 10
      [] c = 102 -> 12
      [] c = 114 -> 13
      [] OTHER -> c

\* the body of a JSON string from position i up to its closing quote; ASCII only,
\* \u escapes not decoded
ScanString(b, i) ==
    LET closers == {j \in i..Len(b) : b[j] = 34 /\ ~Escaped(b, i, j)}
    IN IF closers = {} THEN ParseFail
       ELSE LET end == CHOOSE j \in closers : \A m \in closers : j <= m
                valid == \A j \in i..(end - 1) :
                            IF Escaped(b, i, j)
                            THEN b[j] \in {34, 92, 47, 98, 116, 110, 102, 114}
                            ELSE b[j] >= 32 /\ b[j] <= 127
                keep == SelectSeq([j \in 1..(end - i) |-> i + j - 1],
                                  LAMBDA j : Escaped(b, i, j) \/ b[j] # 92)
            IN IF ~valid THEN ParseFail
               ELSE [ok |-> TRUE,
                     val |-> [k \in 1..Len(keep) |->
                                IF Escaped(b, i, keep[k]) THEN Unescape(b[keep[k]])
                                ELSE b[keep[k]]],
                     next |-> end + 1]

\* a JSON string literal at position i
ParseString(b, i) ==
    IF i <= Len(b) /\ b[i] = 34 THEN ScanString(b, i + 1) ELSE ParseFail

RECURSIVE ScanDigits(_, _, _)
ScanDigits(b, i, acc) ==
    IF i <= Len(b) /\ b[i] >= 48 /\ b[i] <= 57
    THEN ScanDigits(b, i + 1, acc * 10 + (b[i] - 48))
    ELSE [ok |-> TRUE, val |-> acc, next |-> i]

\* an unsigned JSON number at position i: digits, no leading zero
ParseNumber(b, i) ==
    IF i > Len(b) \/ b[i] < 48 \/ b[i] > 57 THEN ParseFail
    ELSE IF b[i] = 48 /\ i + 1 <= Len(b) /\ b[i + 1] >= 48 /\ b[i + 1] <= 57 THEN ParseFail
    ELSE ScanDigits(b, i, 0)

NoToken == [ok |-> FALSE, payment_hash |-> <<>>, tool |-> <<>>, expires |-> 0,
            signature |-> <<>>]

\* serde_json::from_slice::<L402TokenData>, for the layout to_string writes; any
\* other byte string is rejected
from_slice(b) ==
    IF ~StartsWith(b, 1, KeyPaymentHash) THEN NoToken
    ELSE LET ph == ParseString(b, 1 + Len(KeyPaymentHash))
         IN IF ~ph.ok \/ ~StartsWith(b, ph.next, KeyCaveatsTool) THEN NoToken
            ELSE LET tl == ParseString(b, ph.next + Len(KeyCaveatsTool))
                 IN IF ~tl.ok \/ ~StartsWith(b, tl.next, KeyExpires) THEN NoToken
                    ELSE LET ex == ParseNumber(b, tl.next + Len(KeyExpires))
                         IN IF ~ex.ok \/ ~StartsWith(b, ex.next, KeySignature) THEN NoToken
                            ELSE LET sg == ParseString(b, ex.next + Len(KeySignature))
                                 IN IF ~sg.ok \/ ~StartsWith(b, sg.next, CloseObject)
                                       \/ sg.next + Len(CloseObject) - 1 # Len(b)
                                    THEN NoToken
                                    ELSE [ok |-> TRUE, payment_hash |-> ph.val,
                                          tool |-> tl.val, expires |-> ex.val,
                                          signature |-> sg.val]

\* L402Manager::create_token
create_token(key, payment_hash, tool, expires) ==
    Base64Encode(to_string([payment_hash |-> payment_hash, tool |-> tool,
                            expires |-> expires,
                            signature |-> sign(key, payment_hash, tool, expires)]))

\* now >= expires instead of now > expires
IsExpiredAtOrAfter(expires, t) == expires > 0 /\ t >= expires

\* token.caveats.expires > 0 && now > token.caveats.expires
IsExpired(expires, t) == expires > 0 /\ t > expires

NoData == [payment_hash |-> <<>>, tool |-> <<>>, expires |-> 0, signature |-> <<>>]

VerifyErr(kind, msg) == [kind |-> kind, msg |-> msg, data |-> NoData]

\* L402Manager::verify_token at clock reading t
verify_token(key, token_base64, t) ==
    LET d == Base64Decode(token_base64)
    IN IF ~d.ok THEN VerifyErr("InvalidToken", "invalid base64")
       ELSE LET tk == from_slice(d.bytes)
            IN IF ~tk.ok THEN VerifyErr("InvalidToken", "invalid JSON")
               ELSE IF IsExpired(tk.expires, t) THEN VerifyErr("Expired", "")
               ELSE IF tk.signature # sign(key, tk.payment_hash, tk.tool, tk.expires)
                    THEN VerifyErr("BadSignature", "")
               ELSE [kind |-> "Ok", msg |-> "",
                     data |-> [payment_hash |-> tk.payment_hash, tool |-> tk.tool,
                               expires |-> tk.expires, signature |-> tk.signature]]

\* the secret of the manager (32 bytes 0xab, as the tests') and another server's
Secret == [i \in 1..32 |-> 171]
OtherSecret == [i \in 1..32 |-> 205]

\* payment hashes "ab", "abc", a" ; tools "cd", "d", \d
PaymentHashes == {<<97, 98>>, <<97, 98, 99>>, <<97, 34>>}
ToolNames == {<<99, 100>>, <<100>>, <<92, 100>>}
Expiries == 0..MaxTime

\* strings that are not tokens: "!!!!" and "abc" are not base64; "", base64("{}")
\* and base64("x") decode to bytes that are not an L402TokenData
BadBase64 == {<<33, 33, 33, 33>>, <<97, 98, 99>>}
BadJson == {<<>>, Base64Encode(<<123, 125>>), Base64Encode(<<120>>)}

(***************************************************************************)
(* The token presented to verify_token and how it was made (origin: issued *)
(* by this manager, tampered as the test does, issued under another        *)
(* secret, or not a token), with the fields it was built from; o is the    *)
(* issued token a tampered one derives from.                               *)
(***************************************************************************)
NoPresented == [origin |-> "none", b64 |-> <<>>, payment_hash |-> <<>>, tool |-> <<>>,
                expires |-> 0, signature |-> <<>>,
                o |-> [payment_hash |-> <<>>, tool |-> <<>>, expires |-> 0]]

NoVerdict == [kind |-> "none", msg |-> "", data |-> NoData, at |-> 0]

\* the server issues a token
CreateToken(ph, tool, e) ==
    /\ token.origin = "none"
    /\ token' = [NoPresented EXCEPT !.origin = "created",
                    !.b64 = create_token(secret, ph, tool, e),
                    !.payment_hash = ph, !.tool = tool, !.expires = e,
                    !.signature = sign(secret, ph, tool, e),
                    !.o = [payment_hash |-> ph, tool |-> tool, expires |-> e]]
    /\ UNCHANGED <<storeVars, rateVars, gateVars, cacheVars, secret, vres, extVars>>

\* a client decodes an issued token, changes fields, keeps the signature, re-encodes
TamperToken(ph, tool, e) ==
    LET d == from_slice(Base64Decode(token.b64).bytes)
        t2 == [payment_hash |-> ph, tool |-> tool, expires |-> e, signature |-> d.signature]
    IN /\ token.origin = "created"
       /\ vres.kind = "none"
       /\ d.ok
       /\ <<ph, tool, e>> # <<d.payment_hash, d.tool, d.expires>>
       /\ token' = [token EXCEPT !.origin = "tampered",
                       !.b64 = Base64Encode(to_string(t2)),
                       !.payment_hash = ph, !.tool = tool, !.expires = e,
                       !.signature = d.signature]
       /\ UNCHANGED <<storeVars, rateVars, gateVars, cacheVars, secret, vres, extVars>>

\* a token issued under another secret
ForeignToken(ph, tool, e) ==
    /\ token.origin = "none"
    /\ token' = [NoPresented EXCEPT !.origin = "foreign",
                    !.b64 = create_token(OtherSecret, ph, tool, e),
                    !.payment_hash = ph, !.tool = tool, !.expires = e,
                    !.signature = sign(OtherSecret, ph, tool, e)]
    /\ UNCHANGED <<storeVars, rateVars, gateVars, cacheVars, secret, vres, extVars>>

\* a string that is not a token
GarbageToken(kind, s) ==
    /\ token.origin = "none"
    /\ token' = [NoPresented EXCEPT !.origin = kind, !.b64 = s]
    /\ UNCHANGED <<storeVars, rateVars, gateVars, cacheVars, secret, vres, extVars>>

\* L402Manager::verify_token on the presented token
VerifyToken ==
    /\ token.origin # "none"
    /\ vres.kind = "none"
    /\ LET r == verify_token(secret, token.b64, now)
       IN vres' = [kind |-> r.kind, msg |-> r.msg, data |-> r.data, at |-> now]
    /\ UNCHANGED <<storeVars, rateVars, gateVars, cacheVars, secret, token, extVars>>

\* a second passes
ClockTick ==
    /\ now < MaxTime
    /\ now' = now + 1
    /\ UNCHANGED <<storeVars, rateVars, gateVars, profile_ttl, relay_ttl,
                   profiles, relay_info, ccall, plast, l402Vars, extVars>>

NextL402 ==
    \/ \E ph \in PaymentHashes, tool \in ToolNames, e \in Expiries : CreateToken(ph, tool, e)
    \/ \E ph \in PaymentHashes, tool \in ToolNames, e \in Expiries : TamperToken(ph, tool, e)
    \/ \E ph \in PaymentHashes, tool \in ToolNames, e \in Expiries : ForeignToken(ph, tool, e)
    \/ \E s \in BadBase64 : GarbageToken("bad_base64", s)
    \/ \E s \in BadJson : GarbageToken("bad_json", s)
    \/ VerifyToken
    \/ ClockTick

(***************************************************************************)
(* L402 helper functions (src/src/payment/l402.rs): verify_preimage and    *)
(* parse_authorization.  Strings are sequences of bytes.                   *)
(***************************************************************************)
NoNibble == 16

\* the value of one hex digit as hex::decode reads it: 0-9, a-f and A-F
HexVal(c) ==
    IF c >= 48 /\ c <= 57 THEN c - 48
    ELSE IF c >= 97 /\ c <= 102 THEN c - 87
    ELSE IF c >= 65 /\ c <= 70 THEN c - 55
    ELSE NoNibble

\* hex::decode: an error on an odd length or on a character that is no hex digit
HexDecode(s) ==
    IF Len(s) % 2 = 1 \/ \E i \in 1..Len(s) : HexVal(s[i]) = NoNibble
    THEN [ok |-> FALSE, val |-> <<>>]
    ELSE [ok |-> TRUE,
          val |-> [i \in 1..(Len(s) \div 2) |-> 16 * HexVal(s[2 * i - 1]) + HexVal(s[2 * i])]]

\* Sha256::digest, idealised: the digest determines the message
Sha256(b) == <<Len(b)>> \o b

\* a comparison that looks at the first byte only
SliceEqFirst(a, b) == Len(a) > 0 /\ Len(b) > 0 /\ a[1] = b[1]

\* hash.as_slice() == payment_hash.as_slice()
SliceEq(a, b) == a = b

verify_preimage(payment_hash_hex, preimage_hex) ==
    LET payment_hash == HexDecode(payment_hash_hex)
        preimage == HexDecode(preimage_hex)
    IN  IF ~payment_hash.ok THEN FALSE
        ELSE IF ~preimage.ok THEN FALSE
        ELSE SliceEq(Sha256(preimage.val), payment_hash.val)

L402Prefix == <<76, 52, 48, 50, 32>>
Colon == 58

\* str::strip_prefix: the rest of s after the prefix, if s starts with it
StripPrefix(s, prefix) ==
    IF StartsWith(s, 1, prefix)
    THEN [some |-> TRUE, rest |-> SubSeq(s, Len(prefix) + 1, Len(s))]
    ELSE [some |-> FALSE, rest |-> <<>>]

\* a split at the last occurrence of the delimiter (str::rsplit_once)
RSplitOnce(s, delim) ==
    IF \E i \in 1..Len(s) : s[i] = delim
    THEN LET i == CHOOSE k \in 1..Len(s) : s[k] = delim /\ \A j \in (k + 1)..Len(s) : s[j] # delim
         IN  [some |-> TRUE, left |-> SubSeq(s, 1, i - 1), right |-> SubSeq(s, i + 1, Len(s))]
    ELSE [some |-> FALSE, left |-> <<>>, right |-> <<>>]

\* str::split_once: a split at the first occurrence of the delimiter
SplitOnce(s, delim) ==
    IF \E i \in 1..Len(s) : s[i] = delim
    THEN LET i == CHOOSE k \in 1..Len(s) : s[k] = delim /\ \A j \in 1..(k - 1) : s[j] # delim
         IN  [some |-> TRUE, left |-> SubSeq(s, 1, i - 1), right |-> SubSeq(s, i + 1, Len(s))]
    ELSE [some |-> FALSE, left |-> <<>>, right |-> <<>>]

InvalidToken(msg) == [kind |-> "err", err |-> "InvalidToken", msg |-> msg]

parse_authorization(header) ==
    LET stripped == StripPrefix(header, L402Prefix)
    IN  IF ~stripped.some THEN InvalidToken("missing L402 prefix")
        ELSE LET parts == SplitOnce(stripped.rest, Colon)
             IN  IF ~parts.some THEN InvalidToken("missing colon separator")
                 ELSE [kind |-> "ok", token |-> parts.left, preimage |-> parts.right]

\* the inputs of the helper functions
UpperHex(s) == [i \in 1..Len(s) |-> IF s[i] >= 97 /\ s[i] <= 102 THEN s[i] - 32 ELSE s[i]]
PreimageBytes == {<<>>, <<0>>, <<1>>, <<171>>, <<0, 1>>}
NotHex == {<<48>>, <<48, 103>>, <<103, 48>>, <<97, 98, 99>>}
PreimageHexes ==
    {HexEncode(p) : p \in PreimageBytes} \cup {UpperHex(HexEncode(p)) : p \in PreimageBytes}
        \cup NotHex
PaymentHashHexes ==
    {HexEncode(Sha256(p)) : p \in PreimageBytes}
        \cup {UpperHex(HexEncode(Sha256(p))) : p \in PreimageBytes} \cup NotHex
AuthTokens == {<<>>, <<97>>, <<97, 98>>}
AuthPreimages == {<<>>, <<99>>, <<99, 58, 100>>, <<58>>}
ShapedHeaders == {L402Prefix \o t \o <<Colon>> \o p : t \in AuthTokens, p \in AuthPreimages}
OtherHeaders ==
    {<<>>, <<76, 52, 48, 50>>, L402Prefix, L402Prefix \o <<97, 98>>,
     <<108, 52, 48, 50, 32, 97, 58, 99>>, <<76, 52, 48, 50, 97, 58, 99>>,
     <<32>> \o L402Prefix \o <<97, 58, 99>>, <<66, 101, 97, 114, 101, 114, 32, 97, 58, 99>>,
     <<97, 58>> \o L402Prefix \o <<98>>, <<76, 52, 48, 50, 58, 97>>}
HelperCalls ==
    [fn : {"verify_preimage"}, payment_hash_hex : PaymentHashHexes, preimage_hex : PreimageHexes]
        \cup [fn : {"parse_authorization"}, header : ShapedHeaders \cup OtherHeaders]

VerifyPreimage ==
    /\ call.fn = "verify_preimage"
    /\ ret = NoRet
    /\ ret' = [kind |-> "bool", val |-> verify_preimage(call.payment_hash_hex, call.preimage_hex)]
    /\ UNCHANGED <<notFnVars, call>>

ParseAuthorization ==
    /\ call.fn = "parse_authorization"
    /\ ret = NoRet
    /\ ret' = parse_authorization(call.header)
    /\ UNCHANGED <<notFnVars, call>>

NextHelpers ==
    \/ VerifyPreimage
    \/ ParseAuthorization

(***************************************************************************)
(* NwcGateway (src/src/payment/nwc_gateway.rs) called directly, and the    *)
(* L402 challenge endpoint (src/src/main.rs) that calls create_invoice.    *)
(* create_invoice is cut at the make_invoice RPC and at the write lock of  *)
(* pending_invoices, verify_payment at the lookup_invoice RPC and at the   *)
(* write lock.                                                             *)
(*   reqs: the make_invoice requests a task has sent.                     *)
(*   whist.issued: hashes a create_invoice has returned; whist.seen:       *)
(*   hashes a verify_payment was told are settled; whist.removed: hashes   *)
(*   for which a verify_payment has returned true.                         *)
(***************************************************************************)
WTasks == {1, 2, 3}
GwHashes == {1, 2}
InvoiceExpirySeconds == 3

\* the strings of the wallet's reply: payment_hash and invoice
HashStr(h) == <<104, 48 + h>>
Bolt11(h) == <<108, 110, 98, 99, 48 + h>>

\* the bytes of a tool name
ToolBytes(tool) ==
    CASE tool = "search_events" -> <<115, 101, 97, 114, 99, 104, 95, 101, 118, 101, 110, 116, 115>>
      [] tool = "relay_discovery" -> <<114, 101, 108, 97, 121, 95, 100, 105, 115, 99, 111, 118, 101, 114, 121>>
      [] tool = "trending_notes" -> <<116, 114, 101, 110, 100, 105, 110, 103, 95, 110, 111, 116, 101, 115>>
      [] tool = "get_follower_graph" -> <<103, 101, 116, 95, 102, 111, 108, 108, 111, 119, 101, 114, 95, 103, 114, 97, 112, 104>>
      [] tool = "zap_analytics" -> <<122, 97, 112, 95, 97, 110, 97, 108, 121, 116, 105, 99, 115>>
      [] tool = "get_profile" -> <<103, 101, 116, 95, 112, 114, 111, 102, 105, 108, 101>>

NoHttp == [status |-> 0, text |-> "", www_authenticate |-> <<>>, tool |-> "", amount_sats |-> 0,
           invoice |-> <<>>, payment_hash |-> <<>>]

WIdle == [pc |-> "idle", op |-> "none", tool |-> "", amount |-> 0, hash |-> NoHash,
          lookup |-> "none", ret |-> "none", val |-> FALSE, msg |-> "", resp |-> NoHttp,
          t |-> 0, reqs |-> 0]

WHist0 == [issued |-> {}, seen |-> {}, removed |-> {}]

\* the calls each task may make
WOpsOf(p) ==
    CASE p = 1 -> {"create_invoice", "challenge"}
      [] p = 2 -> {"verify_payment"}
      [] OTHER -> {"verify_payment", "challenge"}

\* the tool names each task may ask a challenge for
ChallengeTools(p) == IF p = 1 THEN PaidTools \cup {"get_profile"} ELSE {"zap_analytics"}

WErr(p, m) == [wcall EXCEPT ![p].pc = "done", ![p].ret = "Err", ![p].msg = m]

\* NwcGateway::create_invoice called on a configured gateway
CreateInvoiceCall(p, tool, amount) ==
    /\ nwc_configured
    /\ wcall[p].pc = "idle"
    /\ "create_invoice" \in WOpsOf(p)
    /\ wcall' = [wcall EXCEPT ![p].pc = "make_invoice", ![p].op = "create_invoice",
                              ![p].tool = tool, ![p].amount = amount]
    /\ UNCHANGED <<notGwVars, gateVars, whist>>

\* the price of a call with the largest surcharge
ChallengePriceMax(tool_name) ==
    CASE tool_name = "search_events" -> calculate_price(51)
      [] tool_name = "get_follower_graph" -> calculate_follower_graph_price(2)
      [] OTHER -> Amount(tool_name, NoParam)

\* the price the challenge endpoint looks up: the base price of the tool
ChallengePrice(tool_name) ==
    CASE tool_name = "search_events" -> Pricing.search_events_base
      [] tool_name = "relay_discovery" -> Pricing.relay_discovery
      [] tool_name = "trending_notes" -> Pricing.trending_notes
      [] tool_name = "get_follower_graph" -> Pricing.get_follower_graph
      [] tool_name = "zap_analytics" -> Pricing.zap_analytics
      [] OTHER -> 0

Http(status, text) == [NoHttp EXCEPT !.status = status, !.text = text]

\* l402_challenge_handler up to the call of create_invoice
ChallengeCall(p, tool_name) ==
    /\ wcall[p].pc = "idle"
    /\ "challenge" \in WOpsOf(p)
    /\ wcall' =
          IF ~nwc_configured
          THEN [wcall EXCEPT ![p].pc = "done", ![p].op = "challenge", ![p].tool = tool_name,
                             ![p].resp = Http(503, "NWC gateway not configured")]
          ELSE IF tool_name \notin PaidTools
          THEN [wcall EXCEPT ![p].pc = "done", ![p].op = "challenge", ![p].tool = tool_name,
                             ![p].resp = Http(404, "Unknown tool")]
          ELSE [wcall EXCEPT ![p].pc = "make_invoice", ![p].op = "challenge",
                             ![p].tool = tool_name, ![p].amount = ChallengePrice(tool_name)]
    /\ UNCHANGED <<notGwVars, gateVars, whist>>

\* the wallet answers make_invoice with an invoice and its payment hash
MakeInvoice(p) ==
    LET h == Len(wallet) + 1
        c == wcall[p]
    IN /\ c.pc = "make_invoice"
       /\ h \in GwHashes
       /\ wallet' = Append(wallet, [amount_msat |-> c.amount * 1000,
                                    description |-> <<"nostr-intel: ", c.tool>>,
                                    expiry |-> InvoiceExpirySeconds,
                                    bolt11 |-> Bolt11(h)])
       /\ wcall' = [wcall EXCEPT ![p].pc = "insert", ![p].hash = h, ![p].reqs = @ + 1]
       /\ UNCHANGED <<notGwVars, nwc_configured, today, pending_invoices, settled, gcall, gstat,
                      whist>>

\* create_invoice fails and the caller gets the error: 500 from the challenge endpoint
CreateFailed(p, m) ==
    IF wcall[p].op = "challenge"
    THEN [WErr(p, m) EXCEPT ![p].resp = Http(500, "Invoice creation failed")]
    ELSE WErr(p, m)

\* make_invoice fails
MakeInvoiceFail(p) ==
    /\ wcall[p].pc = "make_invoice"
    /\ wcall' = [CreateFailed(p, "NWC make_invoice failed") EXCEPT ![p].reqs = @ + 1]
    /\ UNCHANGED <<notGwVars, gateVars, whist>>

\* the wallet makes the invoice and its reply carries no payment_hash
MakeInvoiceNoHash(p) ==
    LET h == Len(wallet) + 1
        c == wcall[p]
    IN /\ c.pc = "make_invoice"
       /\ h \in GwHashes
       /\ wallet' = Append(wallet, [amount_msat |-> c.amount * 1000,
                                    description |-> <<"nostr-intel: ", c.tool>>,
                                    expiry |-> InvoiceExpirySeconds,
                                    bolt11 |-> Bolt11(h)])
       /\ wcall' = [CreateFailed(p, "No payment_hash in make_invoice response")
                    EXCEPT ![p].reqs = @ + 1]
       /\ UNCHANGED <<notGwVars, nwc_configured, today, pending_invoices, settled, gcall, gstat,
                      whist>>

L402InvoiceEq == <<76, 52, 48, 50, 32, 105, 110, 118, 111, 105, 99, 101, 61, 34>>
TokenEq == <<34, 44, 32, 116, 111, 107, 101, 110, 61, 34>>
Quote == <<34>>

\* L402Manager::create_challenge
create_challenge(key, invoice, payment_hash, tool_name, expires) ==
    LET tok == create_token(key, payment_hash, tool_name, expires)
    IN  L402InvoiceEq \o invoice \o TokenEq \o tok \o Quote

\* the 402 answer of l402_challenge_handler
ChallengeResponse(key, tool_name, amount, invoice, payment_hash, t) ==
    [status |-> 402, text |-> "",
     www_authenticate |-> create_challenge(key, invoice, payment_hash, ToolBytes(tool_name),
                                           t + InvoiceExpirySeconds),
     tool |-> tool_name, amount_sats |-> amount, invoice |-> invoice,
     payment_hash |-> payment_hash]

\* create_invoice takes the write lock, records the invoice and returns it; the
\* challenge endpoint reads the clock and answers 402
CreateInsert(p) ==
    LET c == wcall[p]
        h == c.hash
    IN /\ c.pc = "insert"
       /\ pending_invoices' = PendingInsert(pending_invoices, h,
                                 [tool_name |-> c.tool, amount_sats |-> c.amount])
       /\ whist' = [whist EXCEPT !.issued = @ \cup {h}]
       /\ wcall' = [wcall EXCEPT ![p].pc = "done", ![p].ret = "Ok", ![p].t = now,
                                 ![p].resp = IF c.op = "challenge"
                                             THEN ChallengeResponse(secret, c.tool, c.amount,
                                                                    Bolt11(h), HashStr(h), now)
                                             ELSE NoHttp]
       /\ UNCHANGED <<notGwVars, nwc_configured, today, wallet, settled, gcall, gstat>>

\* NwcGateway::verify_payment called on a configured gateway
VerifyPaymentCall(p, h) ==
    /\ nwc_configured
    /\ wcall[p].pc = "idle"
    /\ "verify_payment" \in WOpsOf(p)
    /\ wcall' = [wcall EXCEPT ![p].pc = "lookup", ![p].op = "verify_payment", ![p].hash = h]
    /\ UNCHANGED <<notGwVars, gateVars, whist>>

\* the wallet answers lookup_invoice for an invoice it has made
LookupInvoice(p) ==
    LET h == wcall[p].hash
    IN /\ wcall[p].pc = "lookup"
       /\ h <= Len(wallet)
       /\ IF IsSettled(h)
          THEN /\ wcall' = [wcall EXCEPT ![p].pc = "remove", ![p].lookup = "settled"]
               /\ whist' = [whist EXCEPT !.seen = @ \cup {h}]
          ELSE /\ wcall' = [wcall EXCEPT ![p].pc = "done", ![p].lookup = "unsettled",
                                         ![p].ret = "Ok", ![p].val = FALSE]
               /\ UNCHANGED whist
       /\ UNCHANGED <<notGwVars, gateVars>>

\* lookup_invoice fails (RPC error, unknown hash)
LookupInvoiceFail(p) ==
    /\ wcall[p].pc = "lookup"
    /\ wcall' = [WErr(p, "NWC lookup_invoice failed") EXCEPT ![p].lookup = "fail"]
    /\ UNCHANGED <<notGwVars, gateVars, whist>>

\* verify_payment takes the write lock, forgets the invoice and returns true
VerifyRemove(p) ==
    LET h == wcall[p].hash
    IN /\ wcall[p].pc = "remove"
       /\ pending_invoices' = PendingRemove(pending_invoices, h)
       /\ whist' = [whist EXCEPT !.removed = @ \cup {h}]
       /\ wcall' = [wcall EXCEPT ![p].pc = "done", ![p].ret = "Ok", ![p].val = TRUE]
       /\ UNCHANGED <<notGwVars, nwc_configured, today, wallet, settled, gcall, gstat>>

\* a payer settles an invoice that create_invoice has handed out
WalletPay(h) ==
    /\ h \in whist.issued
    /\ h \notin settled
    /\ settled' = settled \cup {h}
    /\ UNCHANGED <<notGwVars, nwc_configured, today, pending_invoices, wallet, gcall, gstat,
                   gwVars>>

NextGateway ==
    \/ \E p \in WTasks, tool \in {"search_events"} : CreateInvoiceCall(p, tool, Pricing.search_events_base)
    \/ \E p \in WTasks : \E tool_name \in ChallengeTools(p) : ChallengeCall(p, tool_name)
    \/ \E p \in WTasks : MakeInvoice(p)
    \/ \E p \in WTasks : MakeInvoiceFail(p)
    \/ \E p \in WTasks : MakeInvoiceNoHash(p)
    \/ \E p \in WTasks : CreateInsert(p)
    \/ \E p \in WTasks, h \in GwHashes : VerifyPaymentCall(p, h)
    \/ \E p \in WTasks : LookupInvoice(p)
    \/ \E p \in WTasks : LookupInvoiceFail(p)
    \/ \E p \in WTasks : VerifyRemove(p)
    \/ \E h \in GwHashes : WalletPay(h)

(***************************************************************************)
(* Sessions and days.  One server process after another runs on the same   *)
(* SQLite file: a restart starts a new process with a new session counter  *)
(* (src/src/server.rs, shared_state) while table rate_limits stays.  Each  *)
(* MCP connection gets a server instance with a session id; its paid calls *)
(* go through FreeTierLimiter::check_and_increment under that id and the   *)
(* day-of-year the call reads.                                             *)
(* Cache::cleanup_expired is not part of the model: no code path of the    *)
(* server calls it.                                                        *)
(*   conn: the connection a server instance belongs to (numbered over all  *)
(*   processes); year: the calendar year, counted from the first process;  *)
(*   squota: per (connection, year, day) the limiter calls answered and    *)
(*   the ones answered true; sused: per (session id, year, day) the calls  *)
(*   answered true.                                                        *)
(***************************************************************************)
MaxConns == 2
MaxSessCalls == 2

STasks == {1, 2}
\* the task that makes the tool calls; both tasks open sessions
Caller == 1
Conns == 1..MaxConns
Years == {0, 1}
Epochs == {0, 1}
Transports == {"stdio", "http"}

\* format!("http-{id}")
SessionId(id) == "http-" \o ToString(id)

SessionIds == {"stdio"} \cup {SessionId(n) : n \in 0..(MaxConns - 1)}
SessKeys == SessionIds \X Days

\* a counter that hands out the same value again
FetchAddNone(v) == v

\* AtomicU64::fetch_add(1, Ordering::Relaxed): the new value of the counter
FetchAdd(v) == v + 1

SIdle == [pc |-> "idle", id |-> 0, conn |-> 0, session |-> "", day |-> 0, yr |-> 0]
Quota0 == [made |-> 0, granted |-> 0]

\* the server instances of a process at its start: NostrIntelServer::new serves
\* stdio under the id "stdio"; the HTTP transport has no session yet
FirstSessions(tr, c) == IF tr = "stdio" THEN <<[id |-> "stdio", conn |-> c]>> ELSE <<>>

\* the process ends and another one starts on the same database
Restart(tr) ==
    /\ epoch + 1 \in Epochs
    /\ \A p \in STasks : scall[p].pc = "idle"
    /\ tr = "stdio" => nconn < MaxConns
    /\ epoch' = epoch + 1
    /\ transport' = tr
    /\ session_counter' = 0
    /\ sessions' = FirstSessions(tr, nconn + 1)
    /\ nconn' = IF tr = "stdio" THEN nconn + 1 ELSE nconn
    /\ UNCHANGED <<notSessVars, calls_per_day, rate_limits, ncalls, today, year, scall, squota,
                   sused>>

\* the from_shared calls between their fetch_add and their return
InFlight == Cardinality({p \in STasks : scall[p].pc = "construct"})

\* NostrIntelServer::from_shared: the fetch_add
FromSharedFetch(p) ==
    /\ transport = "http"
    /\ scall[p].pc = "idle"
    /\ nconn + InFlight < MaxConns
    /\ scall' = [scall EXCEPT ![p].pc = "construct", ![p].id = session_counter]
    /\ session_counter' = FetchAdd(session_counter)
    /\ UNCHANGED <<notSessVars, calls_per_day, rate_limits, ncalls, today, year, transport,
                   epoch, sessions, nconn, squota, sused>>

\* NostrIntelServer::from_shared: the new instance with its session id
FromSharedConstruct(p) ==
    /\ scall[p].pc = "construct"
    /\ sessions' = Append(sessions, [id |-> SessionId(scall[p].id), conn |-> nconn + 1])
    /\ nconn' = nconn + 1
    /\ scall' = [scall EXCEPT ![p] = SIdle]
    /\ UNCHANGED <<notSessVars, calls_per_day, rate_limits, ncalls, today, year, transport,
                   epoch, session_counter, squota, sused>>

\* FreeTierLimiter::check_and_increment(session_id) of the server instance of the
\* latest connection: the day is read
LimiterCall(p) ==
    /\ p = Caller
    /\ scall[p].pc = "idle"
    /\ Len(sessions) > 0
    /\ ncalls < MaxSessCalls
    /\ ncalls' = ncalls + 1
    /\ scall' = [scall EXCEPT ![p].pc = "insert", ![p].session = sessions[Len(sessions)].id,
                              ![p].conn = sessions[Len(sessions)].conn, ![p].day = today, ![p].yr = year]
    /\ UNCHANGED <<notSessVars, calls_per_day, rate_limits, today, year, transport, epoch,
                   session_counter, sessions, nconn, squota, sused>>

\* check_and_increment_rate: the INSERT OR IGNORE
LimiterInsert(p) ==
    /\ scall[p].pc = "insert"
    /\ rate_limits' = InsertOrIgnore(rate_limits, scall[p].session, scall[p].day)
    /\ scall' = [scall EXCEPT ![p].pc = "update"]
    /\ UNCHANGED <<notSessVars, calls_per_day, ncalls, today, year, transport, epoch,
                   session_counter, sessions, nconn, squota, sused>>

\* check_and_increment_rate: the conditional UPDATE and the answer
LimiterUpdate(p) ==
    LET c == scall[p]
        ok == RowsAffected(rate_limits, c.session, c.day, calls_per_day) > 0
        k == <<c.conn, c.yr, c.day>>
        u == <<c.session, c.yr, c.day>>
    IN /\ c.pc = "update"
       /\ rate_limits' = ConditionalUpdate(rate_limits, c.session, c.day, calls_per_day)
       /\ squota' = [squota EXCEPT ![k] = [made |-> @.made + 1,
                                           granted |-> @.granted + (IF ok THEN 1 ELSE 0)]]
       /\ sused' = [sused EXCEPT ![u] = @ + (IF ok THEN 1 ELSE 0)]
       /\ scall' = [scall EXCEPT ![p] = SIdle]
       /\ UNCHANGED <<notSessVars, calls_per_day, ncalls, today, year, transport, epoch,
                      session_counter, sessions, nconn>>

\* midnight UTC: the next day-of-year, 1 again after the last day of the year
NextOrdinal(d) == IF d + 1 \in Days THEN d + 1 ELSE 1

Midnight ==
    /\ NextOrdinal(today) = 1 => year + 1 \in Years
    /\ today' = NextOrdinal(today)
    /\ year' = IF NextOrdinal(today) = 1 THEN year + 1 ELSE year
    /\ UNCHANGED <<notSessVars, calls_per_day, rate_limits, ncalls, transport, epoch,
                   session_counter, sessions, nconn, scall, squota, sused>>

NextSession ==
    \/ \E tr \in Transports : Restart(tr)
    \/ \E p \in STasks : FromSharedFetch(p)
    \/ \E p \in STasks : FromSharedConstruct(p)
    \/ \E p \in STasks : LimiterCall(p)
    \/ \E p \in STasks : LimiterInsert(p)
    \/ \E p \in STasks : LimiterUpdate(p)
    \/ Midnight

(***************************************************************************)
(* The price of a paid call: the amount each handler computes and hands to *)
(* payment_gate (src/src/server.rs), as a function of the tool and of the  *)
(* call's limit (search_events) or depth (get_follower_graph).             *)
(***************************************************************************)
MaxLimitParam == 60
MaxDepthParam == 4

PriceLimits == {NoParam} \cup (0..MaxLimitParam)
PriceDepths == {NoParam} \cup (0..MaxDepthParam)
PriceCalls ==
    [fn : {"amount"}, tool : {"search_events"}, param : PriceLimits]
        \cup [fn : {"amount"}, tool : {"get_follower_graph"}, param : PriceDepths]
        \cup [fn : {"amount"}, tool : PaidTools \ {"search_events", "get_follower_graph"},
              param : {NoParam}]

\* the handler computes the amount of its call
PriceCall ==
    /\ call.fn = "amount"
    /\ ret = NoRet
    /\ ret' = [kind |-> "amount", val |-> Amount(call.tool, call.param)]
    /\ UNCHANGED <<notFnVars, call>>

NextPricing == PriceCall

(***************************************************************************)
(* The bodies of trending_notes and zap_analytics (src/src/server.rs)      *)
(* after the payment gate, as functions of the events the relays returned. *)
(* An event is a record with its id, created_at and tags; a tag is a       *)
(* sequence of strings.                                                    *)
(***************************************************************************)
MaxTrending == 50
DefaultTrending == 20

\* the e-tags with a value among the tags of the events: one pair per tag
ETags(events) ==
    {ij \in (1..Len(events)) \X (1..3) :
        /\ ij[2] <= Len(events[ij[1]].tags)
        /\ Len(events[ij[1]].tags[ij[2]]) >= 2
        /\ events[ij[1]].tags[ij[2]][1] = "e"}

\* reaction_counts / repost_counts: the number of e-tags that name the id
CountFor(events, id) ==
    Cardinality({ij \in ETags(events) : events[ij[1]].tags[ij[2]][2] = id})

\* r_count as u64 + rp_count as u64 * 3
Score(reactions, reposts, id) == CountFor(reactions, id) + CountFor(reposts, id) * 3

\* the place of element i after an ascending stable sort
RankAsc(scores, i) ==
    1 + Cardinality({j \in 1..Len(scores) : scores[j] < scores[i]})
      + Cardinality({j \in 1..(i - 1) : scores[j] = scores[i]})

\* sort_by(|a, b| b.0.cmp(&a.0)): the place of element i after the stable sort,
\* larger scores first, equal scores in their order
RankDesc(scores, i) ==
    1 + Cardinality({j \in 1..Len(scores) : scores[j] > scores[i]})
      + Cardinality({j \in 1..(i - 1) : scores[j] = scores[i]})

\* the sorted vector: at each place the index of the element that goes there
SortByScore(scores) ==
    [k \in 1..Len(scores) |-> CHOOSE i \in 1..Len(scores) : RankDesc(scores, i) = k]

\* params.limit.unwrap_or(20).min(50)
TrendingLimit(limit) == Min(IF limit = NoParam THEN DefaultTrending ELSE limit, MaxTrending)

\* Vec::truncate
Truncate(s, n) == SubSeq(s, 1, Min(n, Len(s)))

\* trending_notes after the fetches: the notes of the response
trending_notes(notes, reactions, reposts, limit) ==
    IF Len(notes) = 0 THEN <<>>
    ELSE LET scores == [i \in 1..Len(notes) |-> Score(reactions, reposts, notes[i].id)]
             order == Truncate(SortByScore(scores), TrendingLimit(limit))
         IN  [k \in 1..Len(order) |->
                 [id |-> notes[order[k]].id,
                  reactions |-> CountFor(reactions, notes[order[k]].id),
                  reposts |-> CountFor(reposts, notes[order[k]].id),
                  zap_total_sats |-> 0,
                  score |-> scores[order[k]]]]

\* the events of the model
Note(id) == [id |-> id, created_at |-> 0, tags |-> <<>>]
Ev(tags) == [id |-> "x", created_at |-> 0, tags |-> tags]
NoteLists ==
    {<<>>, <<Note("A"), Note("B"), Note("C")>>, <<Note("C"), Note("A"), Note("B")>>,
     <<Note("B"), Note("A")>>}
ReactionLists ==
    {<<>>,
     <<Ev(<<<<"e", "B">>>>), Ev(<<<<"e", "A">>>>), Ev(<<<<"e", "B">>, <<"p", "A">>>>),
       Ev(<<<<"e", "A">>>>), Ev(<<<<"e", "B", "wss://r">>>>)>>,
     <<Ev(<<<<"e", "A">>, <<"e", "A">>, <<"e", "A">>>>), Ev(<<<<"e">>, <<"p", "C">>>>)>>,
     <<Ev(<<<<"e", "C">>>>), Ev(<<<<"e", "Z">>>>), Ev(<<<<"E", "B">>>>)>>,
     <<Ev(<<<<"e", "A">>>>), Ev(<<<<"e", "B">>>>), Ev(<<<<"e", "C">>>>)>>}
RepostLists ==
    {<<>>, <<Ev(<<<<"e", "B">>>>)>>, <<Ev(<<<<"e", "C">>>>)>>,
     <<Ev(<<<<"e", "A">>, <<"e", "C">>>>), Ev(<<<<"e", "C">>>>)>>}
TrendingLimits == {NoParam, 0, 1, 2, 50, 51}
TrendingCalls ==
    [fn : {"trending_notes"}, notes : NoteLists, reactions : ReactionLists,
     reposts : RepostLists, limit : TrendingLimits]

TrendingNotes ==
    /\ call.fn = "trending_notes"
    /\ ret = NoRet
    /\ ret' = [kind |-> "notes",
               notes |-> trending_notes(call.notes, call.reactions, call.reposts, call.limit)]
    /\ UNCHANGED <<notFnVars, call>>

(***************************************************************************)
(* zap_analytics.  A zap receipt carries its strings as bytes: the value   *)
(* of a bolt11 tag is the invoice text; the value of a description tag is  *)
(* a JSON text, written here as what serde_json::from_str makes of it: a   *)
(* record that says whether the text parsed, whether the value has an      *)
(* array under "tags", and the arrays of strings in it.                    *)
(***************************************************************************)
NoAmount == [some |-> FALSE, val |-> 0]
SomeAmount(n) == [some |-> TRUE, val |-> n]

\* str::to_lowercase on ASCII
ToLowercase(s) == [i \in 1..Len(s) |-> IF s[i] >= 65 /\ s[i] <= 90 THEN s[i] + 32 ELSE s[i]]

Lnbcrt == <<108, 110, 98, 99, 114, 116>>
Lnbc == <<108, 110, 98, 99>>
Lntb == <<108, 110, 116, 98>>

\* str::find('1') replaced by the last position of the byte
FindLastOne(s) ==
    IF \E i \in 1..Len(s) : s[i] = 49
    THEN CHOOSE i \in 1..Len(s) : s[i] = 49 /\ \A j \in (i + 1)..Len(s) : s[j] # 49
    ELSE 0

\* str::find('1'): the first position of the byte, 0 when there is none
FindOne(s) ==
    IF \E i \in 1..Len(s) : s[i] = 49
    THEN CHOOSE i \in 1..Len(s) : s[i] = 49 /\ \A j \in 1..(i - 1) : s[j] # 49
    ELSE 0

RECURSIVE DigitsValue(_)
DigitsValue(s) ==
    IF Len(s) = 0 THEN 0 ELSE DigitsValue(SubSeq(s, 1, Len(s) - 1)) * 10 + (s[Len(s)] - 48)

\* str::parse::<u64>: decimal digits, one leading '+' allowed
ParseU64(s) ==
    LET digits == IF Len(s) > 0 /\ s[1] = 43 THEN SubSeq(s, 2, Len(s)) ELSE s
    IN IF Len(digits) > 0 /\ \A i \in 1..Len(digits) : digits[i] >= 48 /\ digits[i] <= 57
       THEN SomeAmount(DigitsValue(digits))
       ELSE NoAmount

\* str::strip_suffix(char)
StripSuffix(s, c) ==
    IF Len(s) > 0 /\ s[Len(s)] = c
    THEN [some |-> TRUE, rest |-> SubSeq(s, 1, Len(s) - 1)]
    ELSE [some |-> FALSE, rest |-> <<>>]

\* the amount portion with its multiplier
AmountOf(amount_str) ==
    LET m == StripSuffix(amount_str, 109)
        u == StripSuffix(amount_str, 117)
        n == StripSuffix(amount_str, 110)
        p == StripSuffix(amount_str, 112)
    IN IF m.some THEN (IF ParseU64(m.rest).some THEN SomeAmount(ParseU64(m.rest).val * 100000) ELSE NoAmount)
       ELSE IF u.some THEN (IF ParseU64(u.rest).some THEN SomeAmount(ParseU64(u.rest).val * 100) ELSE NoAmount)
       ELSE IF n.some THEN (IF ParseU64(n.rest).some THEN SomeAmount(ParseU64(n.rest).val \div 10) ELSE NoAmount)
       ELSE IF p.some THEN (IF ParseU64(p.rest).some THEN SomeAmount(ParseU64(p.rest).val \div 100) ELSE NoAmount)
       ELSE IF ParseU64(amount_str).some THEN SomeAmount(ParseU64(amount_str).val * 100000000)
       ELSE NoAmount

parse_bolt11_amount(bolt11) ==
    LET lower == ToLowercase(bolt11)
        rt == StripPrefix(lower, Lnbcrt)
        bc == StripPrefix(lower, Lnbc)
        tb == StripPrefix(lower, Lntb)
    IN IF ~(rt.some \/ bc.some \/ tb.some) THEN NoAmount
       ELSE LET after_prefix == IF rt.some THEN rt.rest ELSE IF bc.some THEN bc.rest ELSE tb.rest
                sep_pos == FindOne(after_prefix)
            IN IF sep_pos = 0 THEN NoAmount
               ELSE IF sep_pos = 1 THEN NoAmount
               ELSE AmountOf(SubSeq(after_prefix, 1, sep_pos - 1))

\* the bolt11 tags, in order, whose invoice gives an amount
Bolt11Hits(tags) ==
    {i \in 1..Len(tags) :
        /\ Len(tags[i]) >= 2
        /\ tags[i][1] = "bolt11"
        /\ parse_bolt11_amount(tags[i][2]).some}

\* the amount entries of a parsed zap request that give a number
AmountEntries(json) ==
    IF ~(json.valid /\ json.hasTags) THEN {}
    ELSE {j \in 1..Len(json.tags) :
            /\ Len(json.tags[j]) >= 2
            /\ json.tags[j][1] = "amount"
            /\ ParseU64(json.tags[j][2]).some}

DescriptionHits(tags) ==
    {i \in 1..Len(tags) :
        /\ Len(tags[i]) >= 2
        /\ tags[i][1] = "description"
        /\ AmountEntries(tags[i][2]) # {}}

FirstOf(S) == CHOOSE i \in S : \A j \in S : i <= j

extract_zap_amount(event) ==
    IF Bolt11Hits(event.tags) # {}
    THEN parse_bolt11_amount(event.tags[FirstOf(Bolt11Hits(event.tags))][2]).val
    ELSE IF DescriptionHits(event.tags) # {}
    THEN LET json == event.tags[FirstOf(DescriptionHits(event.tags))][2]
         IN ParseU64(json.tags[FirstOf(AmountEntries(json))][2]).val \div 1000
    ELSE 0

SecondsPerDay == 86400

\* chrono's date of a day number (days since 1970-01-01), proleptic Gregorian
DateOfDay(days) ==
    LET z == days + 719468
        era == z \div 146097
        doe == z - era * 146097
        yoe == (doe - doe \div 1460 + doe \div 36524 - doe \div 146096) \div 365
        doy == doe - (365 * yoe + yoe \div 4 - yoe \div 100)
        mp == (5 * doy + 2) \div 153
        d == doy - (153 * mp + 2) \div 5 + 1
        m == IF mp < 10 THEN mp + 3 ELSE mp - 9
        y == yoe + era * 400 + (IF m <= 2 THEN 1 ELSE 0)
    IN [y |-> y, m |-> m, d |-> d]

\* a number written with at least w digits
Pad(n, w) == [i \in 1..(w - Len(Itoa(n))) |-> 48] \o Itoa(n)

\* DateTime::from_timestamp(secs, 0).format("%Y-%m-%d"), years 0..9999
FormatDate(secs) ==
    LET c == DateOfDay(secs \div SecondsPerDay)
    IN Pad(c.y, 4) \o <<45>> \o Pad(c.m, 2) \o <<45>> \o Pad(c.d, 2)

\* the order of String keys in a BTreeMap: byte-wise greater
StrGreater(a, b) ==
    \E i \in 1..(Len(a) + 1) :
        /\ \A j \in 1..(i - 1) : j <= Len(b) /\ a[j] = b[j]
        /\ IF i > Len(b) THEN i <= Len(a) ELSE i <= Len(a) /\ a[i] > b[i]

\* the order of String keys in a BTreeMap: byte-wise less
StrLess(a, b) ==
    \E i \in 1..(Len(b) + 1) :
        /\ \A j \in 1..(i - 1) : j <= Len(a) /\ a[j] = b[j]
        /\ IF i > Len(a) THEN i <= Len(b) ELSE i <= Len(b) /\ a[i] < b[i]

RECURSIVE TotalSats(_)
\* total_sats after the loop
TotalSats(receipts) ==
    IF Len(receipts) = 0 THEN 0
    ELSE TotalSats(SubSeq(receipts, 1, Len(receipts) - 1)) + extract_zap_amount(receipts[Len(receipts)])

\* daily_totals after the loop: the keys, and the entry of a key
DailyKeys(receipts) == {FormatDate(receipts[i].created_at) : i \in 1..Len(receipts)}
DailyEntry(receipts, date) ==
    LET on == SelectSeq(receipts, LAMBDA r : FormatDate(r.created_at) = date)
    IN [date |-> date, count |-> Len(on), sats |-> TotalSats(on)]

\* daily_totals.into_iter(): the entries in key order
ZapsOverTime(receipts) ==
    LET keys == DailyKeys(receipts)
    IN [k \in 1..Cardinality(keys) |->
           DailyEntry(receipts,
               CHOOSE d \in keys : Cardinality({e \in keys : StrLess(e, d)}) = k - 1)]

\* zap_analytics after the fetch: the totals and the time series of the response
zap_analytics(receipts) ==
    LET total_sats == TotalSats(receipts)
        total_zaps_count == Len(receipts)
    IN [total_received_sats |-> total_sats,
        total_zaps_count |-> total_zaps_count,
        avg_zap_sats |-> IF total_zaps_count > 0 THEN total_sats \div total_zaps_count ELSE 0,
        zaps_over_time |-> ZapsOverTime(receipts)]

NotJson == [valid |-> FALSE, hasTags |-> FALSE, tags |-> <<>>]
ZapRequest(tags) == [valid |-> TRUE, hasTags |-> TRUE, tags |-> tags]
Receipt(created_at, tags) == [id |-> "z", created_at |-> created_at, tags |-> tags]

\* the receipts of the model:
\*  1  2024-01-01 00:00:00  bolt11 lnbc1u1p (no amount read), request amount 100000
\*  2  2024-01-01 23:59:59  bolt11 lnbc500n1p
\*  3  2024-01-02 00:00:00  bolt11 LNBC2U1P
\*  4  2023-12-31 23:59:59  a p tag, a description that is not JSON
\*  5  2024-02-29 23:59:59  request with a relays entry and amount 21999
\*  6  2000-03-01 00:00:00  bolt11 lnbc210n1p, request amount 21000
ReceiptPool ==
    <<Receipt(1704067200, <<<<"bolt11", <<108, 110, 98, 99, 49, 117, 49, 112>>>>,
                            <<"description", ZapRequest(<<<<"amount", <<49, 48, 48, 48, 48, 48>>>>>>)>>>>),
      Receipt(1704153599, <<<<"bolt11", <<108, 110, 98, 99, 53, 48, 48, 110, 49, 112>>>>>>),
      Receipt(1704153600, <<<<"bolt11", <<76, 78, 66, 67, 50, 85, 49, 80>>>>>>),
      Receipt(1704067199, <<<<"p", <<97>>>>, <<"description", NotJson>>>>),
      Receipt(1709251199, <<<<"description",
                              ZapRequest(<<<<"relays">>, <<"amount", <<50, 49, 57, 57, 57>>>>>>)>>>>),
      Receipt(951868800, <<<<"bolt11", <<108, 110, 98, 99, 50, 49, 48, 110, 49, 112>>>>,
                           <<"description", ZapRequest(<<<<"amount", <<50, 49, 48, 48, 48>>>>>>)>>>>)>>

MaxReceipts == 3
\* the receipt lists: up to MaxReceipts different receipts in any order
ReceiptPicks ==
    UNION {{ix \in [1..n -> 1..Len(ReceiptPool)] : \A i, j \in 1..n : i # j => ix[i] # ix[j]} :
            n \in 0..MaxReceipts}
ZapCalls == {[fn |-> "zap_analytics", receipts |-> [i \in 1..Len(ix) |-> ReceiptPool[ix[i]]]] :
                ix \in ReceiptPicks}

ZapAnalytics ==
    /\ call.fn = "zap_analytics"
    /\ ret = NoRet
    /\ ret' = [kind |-> "zaps", zaps |-> zap_analytics(call.receipts)]
    /\ UNCHANGED <<notFnVars, call>>

AnalyticsCalls == TrendingCalls \cup ZapCalls

NextAnalytics ==
    \/ TrendingNotes
    \/ ZapAnalytics

(***************************************************************************)
(* parse_bolt11_amount and parse_timeframe (src/src/server.rs) called on   *)
(* byte strings, and the timeframe step of trending_notes and              *)
(* zap_analytics.                                                          *)
(***************************************************************************)
\* a string left as it is
NoTrim(s) == s

\* char::is_whitespace on ASCII
IsWhitespace(b) == b \in {9, 10, 11, 12, 13, 32}

\* str::trim
Trim(s) ==
    LET keep == {i \in 1..Len(s) : ~IsWhitespace(s[i])}
    IN IF keep = {} THEN <<>>
       ELSE SubSeq(s, CHOOSE i \in keep : \A j \in keep : i <= j,
                      CHOOSE i \in keep : \A j \in keep : i >= j)

TimeframeErr(msg) == [ok |-> FALSE, secs |-> 0, err |-> msg]
TimeframeOk(secs) == [ok |-> TRUE, secs |-> secs, err |-> ""]

parse_timeframe(raw) ==
    LET tf == ToLowercase(Trim(raw))
        hours == StripSuffix(tf, 104)
        days == StripSuffix(tf, 100)
        years == StripSuffix(tf, 121)
    IN IF hours.some
       THEN (IF ParseU64(hours.rest).some THEN TimeframeOk(ParseU64(hours.rest).val * 3600)
             ELSE TimeframeErr("Invalid hours"))
       ELSE IF days.some
       THEN (IF ParseU64(days.rest).some THEN TimeframeOk(ParseU64(days.rest).val * 86400)
             ELSE TimeframeErr("Invalid days"))
       ELSE IF years.some
       THEN (IF ParseU64(years.rest).some THEN TimeframeOk(ParseU64(years.rest).val * 365 * 86400)
             ELSE TimeframeErr("Invalid years"))
       ELSE TimeframeErr("Unknown timeframe format")

Default24h == <<50, 52, 104>>
Default30d == <<51, 48, 100>>

\* params.timeframe.as_deref().unwrap_or(..)
TimeframeOr(param, default) == IF param.some THEN param.text ELSE default

\* trending_notes and zap_analytics between the gate and the fetch: the error
\* the handler returns, or the seconds it goes on with
TimeframeStep(tool, pubkey_ok, param) ==
    IF tool = "zap_analytics" /\ ~pubkey_ok THEN [kind |-> "err", msg |-> "Invalid pubkey", secs |-> 0]
    ELSE LET r == parse_timeframe(TimeframeOr(param, IF tool = "zap_analytics" THEN Default30d
                                                     ELSE Default24h))
         IN IF r.ok THEN [kind |-> "since", msg |-> "", secs |-> r.secs]
            ELSE [kind |-> "err", msg |-> "Invalid timeframe", secs |-> 0]

\* the invoices of the model: a prefix, digits, a multiplier, the rest
BoltPrefixes ==
    {<<108, 110, 98, 99>>, <<108, 110, 98, 99, 114, 116>>, <<108, 110, 116, 98>>,
     <<76, 78, 66, 67>>, <<108, 110, 116, 98, 115>>, <<108, 110>>, <<>>,
     <<120, 108, 110, 98, 99>>, <<108, 110, 98, 116>>}
BoltDigits ==
    {<<>>, <<53>>, <<50, 48>>, <<50, 53, 48, 48>>, <<49, 48>>, <<49, 53, 48, 48>>, <<49>>,
     <<50, 49, 48>>, <<43, 53>>, <<45, 53>>, <<120>>, <<48, 53>>}
BoltSuffixes == {<<>>, <<109>>, <<117>>, <<110>>, <<112>>, <<77>>, <<113>>, <<109, 117>>}
BoltRests == {<<>>, <<49>>, <<49, 112, 49, 113>>}
\* whole bitcoins stay below 22, so that every amount is below 2^31
BoltAmounts == {d \o s : d \in BoltDigits, s \in BoltSuffixes} \ {<<50, 53, 48, 48>>}
Bolt11Calls ==
    {[fn |-> "parse_bolt11_amount", text |-> p \o a \o r] :
        p \in BoltPrefixes, a \in BoltAmounts, r \in BoltRests}

\* the timeframes of the model: white space, a number, a unit, white space
TfSpaces == {<<>>, <<32>>, <<10, 9>>}
TfNumbers ==
    {<<>>, <<48>>, <<49>>, <<55>>, <<50, 52>>, <<51, 48>>, <<43, 55>>, <<45, 49>>, <<120>>,
     <<49, 46, 53>>, <<55, 32>>, <<48, 55>>}
TfUnits == {<<>>, <<104>>, <<100>>, <<121>>, <<72>>, <<68>>, <<89>>, <<119>>, <<109>>, <<104, 100>>}
Timeframes == {a \o n \o u \o b : a \in TfSpaces, n \in TfNumbers, u \in TfUnits, b \in TfSpaces}
TimeframeCalls == [fn : {"parse_timeframe"}, text : Timeframes]
TimeframeParams ==
    {[some |-> FALSE, text |-> <<>>]} \cup
    {[some |-> TRUE, text |-> n \o u] : n \in TfNumbers, u \in TfUnits}
StepCalls ==
    [fn : {"timeframe_step"}, tool : {"trending_notes", "zap_analytics"}, pubkey_ok : BOOLEAN,
     param : TimeframeParams]
ParserCalls == Bolt11Calls \cup TimeframeCalls \cup StepCalls

ParseBolt11Amount ==
    /\ call.fn = "parse_bolt11_amount"
    /\ ret = NoRet
    /\ ret' = [kind |-> "amount", amount |-> parse_bolt11_amount(call.text)]
    /\ UNCHANGED <<notFnVars, call>>

ParseTimeframe ==
    /\ call.fn = "parse_timeframe"
    /\ ret = NoRet
    /\ ret' = [kind |-> "timeframe", result |-> parse_timeframe(call.text)]
    /\ UNCHANGED <<notFnVars, call>>

TimeframeOfTool ==
    /\ call.fn = "timeframe_step"
    /\ ret = NoRet
    /\ ret' = [kind |-> "step", step |-> TimeframeStep(call.tool, call.pubkey_ok, call.param)]
    /\ UNCHANGED <<notFnVars, call>>

NextParsers ==
    \/ ParseBolt11Amount
    \/ ParseTimeframe
    \/ TimeframeOfTool

(***************************************************************************)
(* get_follower_graph (src/src/server.rs) after the payment gate, as a     *)
(* function of the contact list and the follower events the relays         *)
(* returned.  The names, which come from the profile cache, are left out.  *)
(***************************************************************************)
\* every author kept, repeated or not
KeepAll(events) == [i \in 1..Len(events) |-> events[i].pubkey]

RECURSIVE FollowerSet(_)
\* the loop over follower_events: follower_set.insert(pk_hex) is true for the
\* first event of an author only
FollowerSet(events) ==
    IF Len(events) = 0 THEN <<>>
    ELSE LET before == FollowerSet(SubSeq(events, 1, Len(events) - 1))
             pk == events[Len(events)].pubkey
         IN IF \E i \in 1..Len(before) : before[i] = pk THEN before ELSE Append(before, pk)

\* the p-tags with a value
PTags(tags) == SelectSeq(tags, LAMBDA t : Len(t) >= 2 /\ t[1] = "p")

\* following: one entry per p-tag of the contact list, none without a list
Following(contact_list) ==
    IF ~contact_list.some THEN <<>>
    ELSE [i \in 1..Len(PTags(contact_list.tags)) |-> PTags(contact_list.tags)[i][2]]

\* followers.iter().filter(|f| following_set.contains(&f.pubkey))
MutualFollows(followers, following) ==
    SelectSeq(followers, LAMBDA f : \E i \in 1..Len(following) : following[i] = f)

get_follower_graph(contact_list, follower_events, depth) ==
    LET following == Following(contact_list)
        followers == FollowerSet(follower_events)
    IN [following_count |-> Len(following),
        following |-> following,
        followers_count |-> Len(followers),
        followers_sample |-> followers,
        mutual_follows |-> MutualFollows(followers, following)]

NoContactList == [some |-> FALSE, tags |-> <<>>]
ContactList(tags) == [some |-> TRUE, tags |-> tags]
By(pk) == [pubkey |-> pk]
ContactLists ==
    {NoContactList, ContactList(<<>>),
     ContactList(<<<<"p", "a">>, <<"p", "b">>>>),
     ContactList(<<<<"p", "c">>, <<"e", "a">>, <<"p">>, <<"p", "a", "wss://r">>, <<"p", "c">>>>),
     ContactList(<<<<"P", "a">>, <<"p", "d">>, <<"p", "b">>>>)}
FollowerLists ==
    {<<>>, <<By("a")>>, <<By("b"), By("a")>>, <<By("b"), By("c"), By("b"), By("a")>>,
     <<By("c"), By("c"), By("e")>>, <<By("a"), By("b"), By("c"), By("a"), By("e"), By("b")>>}
GraphDepths == {NoParam, 0, 1, 2, 3}
GraphCalls ==
    [fn : {"get_follower_graph"}, contact_list : ContactLists, events : FollowerLists,
     depth : GraphDepths]

GetFollowerGraph ==
    /\ call.fn = "get_follower_graph"
    /\ ret = NoRet
    /\ ret' = [kind |-> "graph",
               depth |-> ClampDepth(call.depth),
               graph |-> get_follower_graph(call.contact_list, call.events, ClampDepth(call.depth))]
    /\ UNCHANGED <<notFnVars, call>>

NextGraph == GetFollowerGraph

(***************************************************************************)
(* cleanup_expired next to the cache's other calls and to the rate         *)
(* counter: one task stores and looks up, one task cleans up, one caller   *)
(* counts, while seconds and a day pass.  The database file may hold rate  *)
(* rows of an earlier run.                                                 *)
(***************************************************************************)
Worker == 1
Cleaner == 2
\* table rate_limits when the process starts: empty, or one session's rows
StoredRates ==
    {[k \in RateKeys |-> NoRow], [k \in RateKeys |-> IF k[1] = "http-0" THEN 1 ELSE NoRow]}

NextCleanup ==
    \/ SetProfileStart(Worker, "pk1", ValueOf(Worker))
    \/ SetProfileExec(Worker)
    \/ GetProfileStart(Worker, "pk1")
    \/ GetProfileExec(Worker)
    \/ \E k \in Relays : SetRelayInfoStart(Worker, k, ValueOf(Worker))
    \/ SetRelayInfoExec(Worker)
    \/ \E k \in Relays : GetRelayInfoStart(Worker, k)
    \/ GetRelayInfoExec(Worker)
    \/ CleanupStart(Cleaner)
    \/ CleanupProfiles(Cleaner)
    \/ CleanupRelayInfo(Cleaner)
    \/ CleanupRateLimits(Cleaner)
    \/ CacheFault(Cleaner)
    \/ RateCall(Worker, "http-1", today)
    \/ RateInsert(Worker)
    \/ RateUpdate(Worker)
    \/ Tick
    \/ DayChange

(***************************************************************************)
(* The ten tools of the server side by side (server.rs).  The five free    *)
(* tools never enter payment_gate: they read and write the cache only.     *)
(* The five paid tools enter payment_gate first.  A free call uses the     *)
(* same call record as a paid one, with pc "free" while it runs.           *)
(***************************************************************************)
FreeTools == {"decode_nostr_uri", "resolve_nip05", "get_profile", "check_relay",
              "search_profiles"}

\* the task that calls the free tools
Visitor == 2

\* the tools whose handler calls Cache::set_profile
ProfileWriters == {"get_profile", "search_profiles"}

\* the tools whose handler may return Err
FreeRets(tool) == IF tool = "check_relay" THEN {"Ok"} ELSE {"Ok", "Err"}

\* a free tool's handler up to its first await
FreeToolCall(p, s, tool) ==
    /\ gcall[p].pc \in {"idle", "done"}
    /\ ncalls < MaxOps
    /\ ncalls' = ncalls + 1
    /\ gcall' = [gcall EXCEPT ![p] = [GIdle EXCEPT !.pc = "free", !.session = s, !.tool = tool]]
    /\ UNCHANGED <<calls_per_day, rate_limits, rateVars, cacheVars, l402Vars, nwc_configured, today,
                   pending_invoices, wallet, settled, gstat, extVars>>

\* the rest of a free tool's handler: decode_nostr_uri and resolve_nip05
\* touch no state; get_profile and search_profiles may store a profile;
\* check_relay may store the relay's info document
FreeToolBody(p) ==
    LET c == gcall[p]
        row == Entry(ValueOf(p), now, profile_ttl)
    IN /\ c.pc = "free"
       /\ \E r \in FreeRets(c.tool), stores \in BOOLEAN :
             /\ gcall' = [gcall EXCEPT ![p].pc = "done", ![p].body = TRUE, ![p].ret = r]
             /\ IF stores /\ c.tool \in ProfileWriters
                THEN /\ profiles' = InsertOrReplaceEntry(profiles, "pk1", row)
                     /\ plast' = [plast EXCEPT !["pk1"] = row]
                ELSE UNCHANGED <<profiles, plast>>
             /\ IF stores /\ c.tool = "check_relay" /\ SelectUnexpired(relay_info, "wss://r1", now) = NoEntry
                THEN relay_info' = InsertOrReplaceEntry(relay_info, "wss://r1",
                                                        Entry(ValueOf(p), now, relay_ttl))
                ELSE UNCHANGED relay_info
       /\ UNCHANGED <<storeVars, rateVars, l402Vars, nwc_configured, today, pending_invoices,
                      wallet, settled, gstat, now, profile_ttl, relay_ttl, ccall, extVars>>

\* an invoice the wallet issued for a paid call of an earlier run
EarlierInvoice == [amount_msat |-> Amount("relay_discovery", NoParam) * 1000,
                   description |-> <<"nostr-intel: ", "relay_discovery">>,
                   bolt11 |-> <<"lnbc", 1>>]

\* the wallet, its settled hashes and the pending map at start: nothing, or
\* an invoice of an earlier run that the restarted server has forgotten
StoredWallets ==
    {[wallet |-> <<>>, settled |-> {}], [wallet |-> <<EarlierInvoice>>, settled |-> {}],
     [wallet |-> <<EarlierInvoice>>, settled |-> {1}]}

NextTools ==
    \/ \E s \in Clients, tool \in PaidTools, hash \in Hashes :
          \E param \in ParamsOf(tool) : GateCall(Worker, s, tool, param, hash)
    \/ \E tool \in {"relay_discovery", "zap_analytics"} :
          GateCall(Worker, "http-1", tool, NoParam, NoHash)
    \/ GateVerify(Worker)
    \/ GateVerifyFail(Worker)
    \/ GateInsert(Worker)
    \/ GateUpdate(Worker)
    \/ GateStoreFault(Worker)
    \/ GateInvoice(Worker)
    \/ GateInvoiceFail(Worker)
    \/ GateCount(Worker)
    \/ ToolBody(Worker)
    \/ \E tool \in FreeTools : FreeToolCall(Visitor, "http-0", tool)
    \/ FreeToolBody(Visitor)
    \/ \E h \in Hashes : WalletSettle(h)
    \/ DayChange
\* the store, the counter tasks and the gate before any call
RestStore ==
    /\ rate_limits = [k \in RateKeys |-> NoRow]
    /\ ncalls = 0
    /\ rcall = [p \in Procs |-> RIdle]
    /\ rstat = [k \in RateKeys |-> RStat0]

RestGate ==
    /\ today = 1
    /\ pending_invoices = <<>>
    /\ wallet = <<>>
    /\ settled = {}
    /\ gcall = [p \in Tasks |-> GIdle]
    /\ gstat = [k \in RateKeys |-> GStat0]

\* the cache after Cache::new, before any call
RestCache ==
    /\ now = 0
    /\ profiles = [k \in Pubkeys |-> NoEntry]
    /\ relay_info = [k \in Relays |-> NoEntry]
    /\ ccall = [p \in CTasks |-> CIdle]
    /\ plast = [k \in Pubkeys |-> NoEntry]

\* the manager after L402Manager::new, no token presented
RestL402 ==
    /\ secret = Secret
    /\ token = NoPresented
    /\ vres = NoVerdict

\* no helper function called
RestFn ==
    /\ call = NoCall
    /\ ret = NoRet

\* no call to the gateway or to the challenge endpoint
RestGw ==
    /\ wcall = [p \in WTasks |-> WIdle]
    /\ whist = WHist0

\* no session, no restart
RestSess ==
    /\ transport = "http"
    /\ epoch = 0
    /\ session_counter = 0
    /\ sessions = <<>>
    /\ nconn = 0
    /\ year = 0
    /\ scall = [p \in STasks |-> SIdle]
    /\ squota = [k \in Conns \X Years \X Days |-> Quota0]
    /\ sused = [k \in SessionIds \X Years \X Days |-> 0]

RestExt ==
    /\ RestFn
    /\ RestGw
    /\ RestSess

RestBase == RestStore /\ RestGate /\ RestCache /\ RestL402

\* the rate counter called directly: no gateway, no paid call
InitRate ==
    /\ calls_per_day \in Limits
    /\ nwc_configured = FALSE
    /\ profile_ttl = 0 /\ relay_ttl = 0
    /\ RestStore /\ RestGate /\ RestCache /\ RestL402 /\ RestExt

\* the server after NostrIntelServer::new, with or without a gateway
InitGate ==
    /\ calls_per_day \in Limits
    /\ nwc_configured \in BOOLEAN
    /\ profile_ttl = 0 /\ relay_ttl = 0
    /\ RestStore /\ RestGate /\ RestCache /\ RestL402 /\ RestExt

\* the cache after Cache::new(path, profile_ttl_seconds, relay_info_ttl_seconds)
InitCache ==
    /\ calls_per_day = 0
    /\ nwc_configured = FALSE
    /\ profile_ttl \in Ttls /\ relay_ttl = 1
    /\ RestStore /\ RestGate /\ RestCache /\ RestL402 /\ RestExt

SpecRate == InitRate /\ [][NextRate]_vars

SpecGate == InitGate /\ [][NextGate]_vars

\* the L402 manager alone
InitL402 ==
    /\ calls_per_day = 0
    /\ nwc_configured = FALSE
    /\ profile_ttl = 0 /\ relay_ttl = 0
    /\ RestStore /\ RestGate /\ RestCache /\ RestL402 /\ RestExt

SpecCache == InitCache /\ [][NextCache]_vars

SpecL402 == InitL402 /\ [][NextL402]_vars

(***************************************************************************)
(* The rate counter (SpecRate).                                            *)
(***************************************************************************)
StoredCount(k) == IF rate_limits[k] = NoRow THEN 0 ELSE rate_limits[k]

\* C1: for every (session, day) and limit L, a call of check_and_increment_rate
\* returns true and increments the stored count by exactly one iff the count it
\* found was strictly below L, otherwise it returns false and leaves the count
\* unchanged; the calls that returned true never exceed L and after n answered
\* calls the stored count is min(n, L).
C1_RateCounterContract ==
    /\ \A k \in RateKeys :
          /\ rstat[k].trues <= calls_per_day
          /\ StoredCount(k) = Min(rstat[k].trues + rstat[k].falses, calls_per_day)
    /\ \A p \in Procs :
          rcall[p].pc = "done" /\ rcall[p].res # "err" =>
             /\ (rcall[p].res = "true") <=> (rcall[p].pre < calls_per_day)
             /\ rcall[p].res = "true" => rcall[p].post = rcall[p].pre + 1
             /\ rcall[p].res = "false" => rcall[p].post = rcall[p].pre

\* a call answered false at a full counter, after the limit's worth of true answers
C1_Witness ==
    \E p \in Procs :
       /\ calls_per_day >= 1
       /\ rcall[p].pc = "done" /\ rcall[p].res = "false"
       /\ rcall[p].pre = calls_per_day /\ rcall[p].post = calls_per_day
       /\ rstat[<<rcall[p].client, rcall[p].day>>].trues = calls_per_day

\* no task is between the start and the end of a call on key k
Quiescent(k) ==
    \A p \in Procs :
       rcall[p].pc \in {"insert", "update"} => <<rcall[p].client, rcall[p].day>> # k

\* C2: when N callers run check_and_increment_rate concurrently on the same
\* (session, day), starting from no row, then under every interleaving of their
\* INSERT OR IGNORE and UPDATE steps exactly min(N, L) of them return true, the
\* others return false and the stored count ends at min(N, L).
C2_ConcurrentCallers ==
    \A k \in RateKeys :
       Quiescent(k) /\ rstat[k].errs = 0 =>
          /\ rstat[k].trues = Min(rstat[k].calls, calls_per_day)
          /\ rstat[k].falses = rstat[k].calls - Min(rstat[k].calls, calls_per_day)
          /\ StoredCount(k) = Min(rstat[k].calls, calls_per_day)

\* two callers that both found the count at L-1 after their INSERT: one true, one
\* false, the count persisted at L
C2_Witness ==
    \E p, q \in Procs :
       /\ p # q
       /\ calls_per_day >= 1
       /\ rcall[p].pc = "done" /\ rcall[q].pc = "done"
       /\ rcall[p].client = rcall[q].client /\ rcall[p].day = rcall[q].day
       /\ rcall[p].seen = calls_per_day - 1 /\ rcall[q].seen = calls_per_day - 1
       /\ rcall[p].res = "true" /\ rcall[q].res = "false"
       /\ rate_limits[<<rcall[p].client, rcall[p].day>>] = calls_per_day

(***************************************************************************)
(* The payment gate (SpecGate).                                            *)
(***************************************************************************)
\* the gate of call c has resolved
Resolved(c) == c.pc \in {"body", "done"}

\* c returned a successful PaymentRequiredResponse for task p's call, carrying the
\* invoice the wallet issued for this call and for no other
PaymentRequiredFor(p) ==
    LET c == gcall[p]
    IN /\ c.gate = "EarlyReturn" /\ c.ret = "Ok" /\ ~c.body
       /\ c.resp.kind = "payment_required"
       /\ c.resp.tool_name = c.tool
       /\ c.resp.amount_sats = Amount(c.tool, c.param)
       /\ c.made \in 1..Len(wallet)
       /\ c.resp.payment_hash = c.made
       /\ c.resp.invoice = wallet[c.made].bolt11
       /\ wallet[c.made].amount_msat = Amount(c.tool, c.param) * 1000
       /\ \A q \in Tasks \ {p} : gcall[q].made # c.made

\* C3 as stated: with a gateway configured, the first L calls without payment_hash
\* of a session's day resolve to Proceed and every further one returns a successful
\* PaymentRequiredResponse with the tool's name, the price of the call and a fresh
\* invoice.
C3_FirstLThenInvoice ==
    \A p \in Tasks :
       nwc_configured /\ gcall[p].hash = NoHash /\ Resolved(gcall[p]) /\ gcall[p].rank_all > 0 =>
          IF gcall[p].rank_all <= calls_per_day
          THEN gcall[p].gate = "Proceed"
          ELSE PaymentRequiredFor(p)

\* C3 amended: with a gateway configured, among the calls without payment_hash of a
\* session's day whose counter statements succeed, the first L resolve to Proceed
\* and every further one returns a successful PaymentRequiredResponse (tool name,
\* price of the call, fresh invoice) when the wallet issues the invoice and a tool
\* error when it does not; a call whose counter statement fails resolves to Proceed.
C3_FirstLThenInvoiceOrError ==
    \A p \in Tasks :
       nwc_configured /\ gcall[p].hash = NoHash /\ Resolved(gcall[p]) /\ gcall[p].rank_all > 0 =>
          IF gcall[p].fault \/ gcall[p].rank_ok <= calls_per_day
          THEN gcall[p].gate = "Proceed"
          ELSE \/ PaymentRequiredFor(p)
               \/ /\ gcall[p].gate = "Err" /\ gcall[p].ret = "Err" /\ ~gcall[p].body
                  /\ gcall[p].msg \in {"NWC make_invoice failed",
                                       "No payment_hash in make_invoice response"}
                  /\ gcall[p].made = NoHash /\ gcall[p].resp = NoResp

\* the call after the L-th of the day got its invoice, at a price above the base one
C3_Witness ==
    \E p \in Tasks :
       /\ nwc_configured /\ calls_per_day >= 1
       /\ gcall[p].hash = NoHash /\ ~gcall[p].fault
       /\ gcall[p].rank_ok = calls_per_day + 1
       /\ gcall[p].param # NoParam
       /\ PaymentRequiredFor(p)

\* C4: a call carrying a payment_hash resolves by the first matching rule: no
\* gateway gives the error "Payment system not configured"; a failed wallet lookup
\* gives a tool error; the wallet reporting the hash unsettled gives the error
\* "Payment not confirmed. Invoice may be unpaid or expired."; the wallet reporting
\* it settled gives Proceed, and the tool body runs.
C4_PaymentHashPath ==
    \A p \in Tasks :
       LET c == gcall[p]
       IN c.hash # NoHash /\ Resolved(c) =>
             /\ c.rank_all = 0 /\ c.resp = NoResp /\ c.made = NoHash
             /\ IF ~nwc_configured
                THEN /\ c.gate = "Err" /\ c.ret = "Err" /\ ~c.body
                     /\ c.msg = "Payment system not configured"
                     /\ c.lookup = "none"
                ELSE CASE c.lookup = "fail" ->
                            /\ c.gate = "Err" /\ c.ret = "Err" /\ ~c.body
                            /\ c.msg = "NWC lookup_invoice failed"
                       [] c.lookup = "unsettled" ->
                            /\ c.gate = "Err" /\ c.ret = "Err" /\ ~c.body
                            /\ c.msg = "Payment not confirmed. Invoice may be unpaid or expired."
                       [] c.lookup = "settled" ->
                            /\ c.gate = "Proceed"
                            /\ c.pc = "done" => c.body
                       [] OTHER -> FALSE

\* a call whose payment_hash the wallet reported settled: the body ran
C4_Witness ==
    \E p \in Tasks :
       /\ gcall[p].hash # NoHash /\ gcall[p].lookup = "settled"
       /\ gcall[p].pc = "done" /\ gcall[p].body /\ gcall[p].ret = "Ok"

\* the call of task p found the free tier exhausted, with no gateway, and returned
ExhaustedNoGateway(p) ==
    /\ ~nwc_configured
    /\ gcall[p].hash = NoHash
    /\ gcall[p].under = "false"
    /\ gcall[p].pc = "done"

\* everything C5 says of the result but calls_used
ExhaustedPayload(p) ==
    LET c == gcall[p]
    IN /\ c.gate = "EarlyReturn" /\ c.ret = "Ok"
       /\ c.resp.kind = "free_tier_exhausted"
       /\ c.resp.payment_available = FALSE
       /\ c.resp.calls_limit = calls_per_day
       /\ c.resp.invoice = <<>> /\ c.resp.payment_hash = NoHash
       /\ c.made = NoHash /\ wallet = <<>> /\ pending_invoices = <<>>
       /\ ~c.body

\* C5 as stated: a call without payment_hash that finds the free tier exhausted with
\* no gateway returns a successful free_tier_exhausted payload with
\* payment_available = false, calls_limit = the daily limit and calls_used = the
\* session's stored count for today; no invoice is created, the body does not run.
C5_ExhaustedUsesStoredCount ==
    \A p \in Tasks :
       ExhaustedNoGateway(p) =>
          ExhaustedPayload(p) /\ gcall[p].resp.calls_used = gcall[p].stored

\* C5 amended: the same, with calls_used = the session's stored count for today
\* when the count is read, and 0 when the read of the count fails.
C5_ExhaustedUsesStoredCountOrZero ==
    \A p \in Tasks :
       ExhaustedNoGateway(p) =>
          /\ ExhaustedPayload(p)
          /\ gcall[p].resp.calls_used = IF gcall[p].read_fault THEN 0 ELSE gcall[p].stored

\* an exhausted answer reporting the stored count, the limit reached
C5_Witness ==
    \E p \in Tasks :
       /\ ExhaustedNoGateway(p) /\ ~gcall[p].read_fault
       /\ calls_per_day >= 1
       /\ gcall[p].resp.calls_used = calls_per_day
       /\ gcall[p].resp.calls_limit = calls_per_day

\* C6: whenever the store returns an error to check_and_increment_rate during a call
\* without payment_hash, the gate resolves to Proceed: no error, no
\* PaymentRequiredResponse, no FreeTierExhaustedResponse, no invoice, whatever the
\* counter holds and whether or not a gateway is configured.
C6_FailOpen ==
    \A p \in Tasks :
       gcall[p].fault =>
          /\ gcall[p].hash = NoHash
          /\ gcall[p].under = "true"
          /\ gcall[p].gate = "Proceed"
          /\ Resolved(gcall[p])
          /\ gcall[p].resp = NoResp /\ gcall[p].made = NoHash
          /\ gcall[p].pc = "done" => gcall[p].body

\* the store failed while the session's counter was already at the limit, a gateway
\* configured: the body ran
C6_Witness ==
    \E p \in Tasks :
       /\ gcall[p].fault /\ nwc_configured /\ calls_per_day >= 1
       /\ rate_limits[<<gcall[p].session, gcall[p].day>>] = calls_per_day
       /\ gcall[p].rank_all > calls_per_day
       /\ gcall[p].pc = "done" /\ gcall[p].body

(***************************************************************************)
(* The profile cache (SpecCache).                                          *)
(***************************************************************************)
\* C7: a profile stored by set_profile at time t with TTL tau is returned by a
\* get_profile of that pubkey that runs before t + tau, and a get_profile that
\* starts at or after t + tau returns empty, unless the profile was stored again in
\* between (last is the latest store); under every interleaving of set_profile,
\* get_profile and cleanup_expired a lookup never returns a row whose expires_at is
\* at or before the time the lookup read.
C7_ProfileTtl ==
    \A p \in CTasks :
       LET c == ccall[p]
       IN c.op = "get_profile" /\ c.pc = "done" /\ c.res # "err" =>
             /\ c.res = "some" =>
                   /\ c.row.expires_at > c.t
                   /\ c.row = c.last
                   /\ c.row.expires_at = c.row.cached_at + profile_ttl
             /\ c.last # NoEntry /\ c.x < c.last.cached_at + profile_ttl =>
                   c.res = "some" /\ c.row = c.last
             /\ c.last # NoEntry /\ c.t >= c.last.cached_at + profile_ttl =>
                   c.res = "empty"
             /\ c.last = NoEntry => c.res = "empty"

\* a lookup in the last second before t + tau, after a cleanup_expired ran, returned
\* the stored profile
C7_Witness ==
    \E p, q \in CTasks :
       /\ ccall[p].op = "get_profile" /\ ccall[p].pc = "done" /\ ccall[p].res = "some"
       /\ ccall[p].row = plast[ccall[p].key]
       /\ ccall[p].x > ccall[p].row.cached_at
       /\ ccall[p].x = ccall[p].row.expires_at - 1
       /\ ccall[q].op = "cleanup_expired" /\ ccall[q].pc = "done" /\ ccall[q].res = "ok"

(***************************************************************************)
(* L402 tokens (SpecL402).                                                 *)
(***************************************************************************)
Verified == vres.kind # "none"

\* C8: for every payment_hash, tool and expires greater than the time of
\* verification, verify_token of the token create_token made under the same secret
\* succeeds and returns the same payment_hash, tool and expires.
C8_RoundTrip ==
    token.origin = "created" /\ Verified /\ token.expires > vres.at =>
       /\ vres.kind = "Ok"
       /\ vres.data.payment_hash = token.payment_hash
       /\ vres.data.tool = token.tool
       /\ vres.data.expires = token.expires

\* a token whose payment_hash holds a quote and whose tool holds a backslash came
\* back intact, after the clock moved
C8_Witness ==
    /\ token.origin = "created" /\ vres.kind = "Ok"
    /\ vres.at >= 1 /\ token.expires > vres.at
    /\ token.payment_hash = <<97, 34>> /\ token.tool = <<92, 100>>
    /\ vres.data.payment_hash = <<97, 34>> /\ vres.data.tool = <<92, 100>>

\* C9 as stated, read with the order of verify_token's checks (a token whose
\* expires has passed is reported Expired): a token made by create_token in which
\* any of payment_hash, tool or expires was changed to a different value, the
\* original signature kept, is rejected by verify_token with BadSignature.
C9_TamperedIsBadSignature ==
    token.origin = "tampered" /\ Verified /\ ~IsExpired(token.expires, vres.at) =>
       vres.kind = "BadSignature"

\* C10: verify_token checks base64, then JSON, then expiry, then the signature, and
\* reports the first failure: expires > 0 and now > expires is Expired whatever the
\* signature, expires = 0 never is, now <= expires is not, and a token that is not
\* expired is accepted iff its signature is the HMAC of its payment_hash, tool and
\* expires under the manager's secret.
C10_CheckOrder ==
    Verified =>
       CASE token.origin = "bad_base64" ->
               vres.kind = "InvalidToken" /\ vres.msg = "invalid base64"
         [] token.origin = "bad_json" ->
               vres.kind = "InvalidToken" /\ vres.msg = "invalid JSON"
         [] OTHER ->
               IF token.expires > 0 /\ vres.at > token.expires
               THEN vres.kind = "Expired"
               ELSE IF token.signature = sign(secret, token.payment_hash, token.tool,
                                              token.expires)
                    THEN /\ vres.kind = "Ok"
                         /\ vres.data = [payment_hash |-> token.payment_hash,
                                         tool |-> token.tool, expires |-> token.expires,
                                         signature |-> token.signature]
                    ELSE vres.kind = "BadSignature"

\* a token with a wrong signature whose expires has passed is reported Expired
C10_Witness ==
    /\ token.origin = "tampered"
    /\ token.expires > 0 /\ vres.at > token.expires
    /\ token.signature # sign(secret, token.payment_hash, token.tool, token.expires)
    /\ vres.kind = "Expired"

\* the L402 helper functions, each called once on one input
InitHelpers ==
    /\ calls_per_day = 0
    /\ nwc_configured = FALSE
    /\ profile_ttl = 0 /\ relay_ttl = 0
    /\ RestBase /\ RestGw /\ RestSess
    /\ call \in HelperCalls
    /\ ret = NoRet

SpecHelpers == InitHelpers /\ [][NextHelpers]_vars

\* the gateway after NwcGateway::new (or none), the L402 manager after L402Manager::new
InitGateway ==
    /\ calls_per_day = 0
    /\ nwc_configured \in BOOLEAN
    /\ profile_ttl = 0 /\ relay_ttl = 0
    /\ RestBase /\ RestExt

SpecGateway == InitGateway /\ [][NextGateway]_vars

\* the first process on an empty database, serving stdio or HTTP
InitSession ==
    /\ calls_per_day \in Limits
    /\ rate_limits = [k \in SessKeys |-> NoRow]
    /\ ncalls = 0
    /\ rcall = [p \in Procs |-> RIdle]
    /\ rstat = [k \in RateKeys |-> RStat0]
    /\ nwc_configured = FALSE
    /\ profile_ttl = 0 /\ relay_ttl = 0
    /\ RestGate /\ RestCache /\ RestL402 /\ RestFn /\ RestGw
    /\ transport \in Transports
    /\ epoch = 0
    /\ session_counter = 0
    /\ sessions = FirstSessions(transport, 1)
    /\ nconn = IF transport = "stdio" THEN 1 ELSE 0
    /\ year = 0
    /\ scall = [p \in STasks |-> SIdle]
    /\ squota = [k \in Conns \X Years \X Days |-> Quota0]
    /\ sused = [k \in SessionIds \X Years \X Days |-> 0]

SpecSession == InitSession /\ [][NextSession]_vars

\* one paid call with its parameters, its amount not yet computed
InitPricing ==
    /\ calls_per_day = 0
    /\ nwc_configured = FALSE
    /\ profile_ttl = 0 /\ relay_ttl = 0
    /\ RestBase /\ RestGw /\ RestSess
    /\ call \in PriceCalls
    /\ ret = NoRet

SpecPricing == InitPricing /\ [][NextPricing]_vars

\* one call of a tool body on the events the relays returned
InitAnalytics ==
    /\ calls_per_day = 0
    /\ nwc_configured = FALSE
    /\ profile_ttl = 0 /\ relay_ttl = 0
    /\ RestBase /\ RestGw /\ RestSess
    /\ call \in AnalyticsCalls
    /\ ret = NoRet

SpecAnalytics == InitAnalytics /\ [][NextAnalytics]_vars

\* one call of a parser, or of a handler's timeframe step, on one input
InitParsers ==
    /\ calls_per_day = 0
    /\ nwc_configured = FALSE
    /\ profile_ttl = 0 /\ relay_ttl = 0
    /\ RestBase /\ RestGw /\ RestSess
    /\ call \in ParserCalls
    /\ ret = NoRet

SpecParsers == InitParsers /\ [][NextParsers]_vars

\* one call of get_follower_graph on the events the relays returned
InitGraph ==
    /\ calls_per_day = 0
    /\ nwc_configured = FALSE
    /\ profile_ttl = 0 /\ relay_ttl = 0
    /\ RestBase /\ RestGw /\ RestSess
    /\ call \in GraphCalls
    /\ ret = NoRet

SpecGraph == InitGraph /\ [][NextGraph]_vars

\* the cache and the counter on a database that may hold rows of an earlier run
InitCleanup ==
    /\ calls_per_day = 1
    /\ nwc_configured = FALSE
    /\ profile_ttl = 1 /\ relay_ttl = 1
    /\ rate_limits \in StoredRates
    /\ ncalls = 0
    /\ rcall = [p \in Procs |-> RIdle]
    /\ rstat = [k \in RateKeys |-> RStat0]
    /\ RestGate /\ RestCache /\ RestL402 /\ RestExt

SpecCleanup == InitCleanup /\ [][NextCleanup]_vars

\* the server with its ten tools, on a wallet that may hold an earlier invoice
InitTools ==
    /\ calls_per_day \in {0, 1}
    /\ nwc_configured \in BOOLEAN
    /\ profile_ttl = 1 /\ relay_ttl = 1
    /\ today = 1
    /\ pending_invoices = <<>>
    /\ \E w \in StoredWallets : wallet = w.wallet /\ settled = w.settled
    /\ gcall = [p \in Tasks |-> GIdle]
    /\ gstat = [k \in RateKeys |-> GStat0]
    /\ RestStore /\ RestCache /\ RestL402 /\ RestExt

SpecTools == InitTools /\ [][NextTools]_vars

IsHexDigit(c) == c \in (48..57) \cup (97..102) \cup (65..70)
WellFormedHex(s) == Len(s) % 2 = 0 /\ \A i \in 1..Len(s) : IsHexDigit(s[i])
PreimageReturned == call.fn = "verify_preimage" /\ ret # NoRet

\* C11: verify_preimage always returns a boolean; it is true iff both
\* arguments are well-formed hex and the SHA-256 of the decoded preimage is
\* the decoded payment hash; for the hash of p it is true for (any hex
\* spelling of) p and false for every other preimage; an argument that does
\* not decode gives false.
C11_VerifyPreimage ==
    PreimageReturned =>
        /\ ret.kind = "bool"
        /\ ret.val =
              (/\ WellFormedHex(call.payment_hash_hex)
               /\ WellFormedHex(call.preimage_hex)
               /\ Sha256(HexDecode(call.preimage_hex).val) = HexDecode(call.payment_hash_hex).val)
        /\ \A p \in PreimageBytes, q \in PreimageBytes :
              /\ call.payment_hash_hex \in {HexEncode(Sha256(p)), UpperHex(HexEncode(Sha256(p)))}
              /\ call.preimage_hex \in {HexEncode(q), UpperHex(HexEncode(q))}
              => ret.val = (p = q)
        /\ (call.payment_hash_hex \in NotHex \/ call.preimage_hex \in NotHex) => ret.val = FALSE

C11_Witness ==
    /\ PreimageReturned
    /\ ret.val = TRUE
    /\ call.preimage_hex = HexEncode(<<171>>)
    /\ call.payment_hash_hex = UpperHex(HexEncode(Sha256(<<171>>)))

HasL402Shape(h) ==
    /\ Len(h) >= Len(L402Prefix)
    /\ SubSeq(h, 1, Len(L402Prefix)) = L402Prefix
    /\ \E i \in (Len(L402Prefix) + 1)..Len(h) : h[i] = Colon
AuthorizationReturned == call.fn = "parse_authorization" /\ ret # NoRet

\* C12: parse_authorization accepts exactly the headers that start with
\* "L402 " and have a colon after it; for a header "L402 " + t + ":" + p with
\* no colon in t it returns (t, p); every other header is rejected with
\* InvalidToken.
C12_ParseAuthorization ==
    AuthorizationReturned =>
        /\ HasL402Shape(call.header) <=> ret.kind = "ok"
        /\ ~HasL402Shape(call.header) <=> (ret.kind = "err" /\ ret.err = "InvalidToken")
        /\ \A t \in AuthTokens, p \in AuthPreimages :
              call.header = L402Prefix \o t \o <<Colon>> \o p
              => ret = [kind |-> "ok", token |-> t, preimage |-> p]

C12_Witness ==
    /\ AuthorizationReturned
    /\ call.header = L402Prefix \o <<97, 98>> \o <<Colon>> \o <<99, 58, 100>>
    /\ ret = [kind |-> "ok", token |-> <<97, 98>>, preimage |-> <<99, 58, 100>>]

CreateInvoiceFailed(p) == wcall[p].op \in {"create_invoice", "challenge"} /\ wcall[p].ret = "Err"
VerifyPaymentReturned(p) == wcall[p].op = "verify_payment" /\ wcall[p].pc = "done"

\* C13: a payment hash is in the pending map exactly from the return of the
\* create_invoice that issued it until a verify_payment has seen it settled
\* (and taken it out); a create_invoice that fails records nothing;
\* verify_payment returns true iff the wallet reported the invoice settled;
\* an unsettled lookup and a repeated settled lookup leave the map as it is.
C13_PendingLifecycle ==
    /\ \A h \in GwHashes :
          /\ h \in DOMAIN pending_invoices => h \in whist.issued
          /\ (h \in whist.issued /\ h \notin whist.seen) => h \in DOMAIN pending_invoices
          /\ h \in whist.removed => h \notin DOMAIN pending_invoices
    /\ \A p \in WTasks :
          /\ CreateInvoiceFailed(p) => wcall[p].hash \notin DOMAIN pending_invoices
          /\ VerifyPaymentReturned(p) =>
                /\ wcall[p].lookup = "settled" <=> (wcall[p].ret = "Ok" /\ wcall[p].val = TRUE)
                /\ wcall[p].lookup = "unsettled" <=> (wcall[p].ret = "Ok" /\ wcall[p].val = FALSE)
                /\ wcall[p].lookup = "fail" <=> wcall[p].ret = "Err"

\* two verify_payment calls for one settled hash have both returned true
C13_Witness ==
    /\ VerifyPaymentReturned(2) /\ VerifyPaymentReturned(3)
    /\ wcall[2].hash = 1 /\ wcall[3].hash = 1
    /\ wcall[2].val = TRUE /\ wcall[3].val = TRUE
    /\ 1 \in whist.issued
    /\ 1 \notin DOMAIN pending_invoices

ChallengeAnswered(p) == wcall[p].op = "challenge" /\ wcall[p].pc = "done"
BasePrice(tool) ==
    CASE tool = "search_events" -> Pricing.search_events_base
      [] tool = "relay_discovery" -> Pricing.relay_discovery
      [] tool = "trending_notes" -> Pricing.trending_notes
      [] tool = "get_follower_graph" -> Pricing.get_follower_graph
      [] tool = "zap_analytics" -> Pricing.zap_analytics
TokenOf(header, invoice) ==
    SubSeq(header, Len(L402InvoiceEq) + Len(invoice) + Len(TokenEq) + 1, Len(header) - 1)

\* the 402 answer: one invoice at the base price, the header
\* L402 invoice="...", token="...", the body's amount and payment hash, the
\* payment hash signed into the token
Challenge402(p) ==
    LET c == wcall[p]
        r == c.resp
        inv == wallet[c.hash]
        v == verify_token(secret, TokenOf(r.www_authenticate, r.invoice), c.t)
    IN /\ r.status = 402
       /\ c.reqs = 1
       /\ inv.amount_msat = 1000 * BasePrice(c.tool)
       /\ r.invoice = inv.bolt11
       /\ r.amount_sats = BasePrice(c.tool)
       /\ r.tool = c.tool
       /\ r.payment_hash = HashStr(c.hash)
       /\ StartsWith(r.www_authenticate, 1, L402InvoiceEq \o r.invoice \o TokenEq)
       /\ r.www_authenticate[Len(r.www_authenticate)] = 34
       /\ v.kind = "Ok"
       /\ v.data.payment_hash = r.payment_hash
       /\ v.data.tool = ToolBytes(c.tool)
NoInvoiceAsked(p) == wcall[p].reqs = 0 /\ wcall[p].hash = NoHash

\* C14 as stated: 503 without a gateway, 404 for an unknown tool, otherwise one
\* invoice at the base price and the 402 answer
C14_ChallengeAnswers ==
    \A p \in WTasks : ChallengeAnswered(p) =>
        IF ~nwc_configured THEN wcall[p].resp.status = 503 /\ NoInvoiceAsked(p)
        ELSE IF wcall[p].tool \notin PaidTools THEN wcall[p].resp.status = 404 /\ NoInvoiceAsked(p)
        ELSE Challenge402(p)

\* C14: GET /l402/challenge/{tool_name} answers 503 without a gateway, 404
\* for a tool that is not one of the five paid tools, and otherwise asks the
\* wallet for one invoice at the tool's base price; when the invoice is made
\* it answers 402 with the L402 header and the body of that invoice, and when
\* create_invoice fails it answers 500 with no challenge; no invoice is asked
\* for on the 503 and 404 paths.
C14_ChallengeAnswersOrError ==
    \A p \in WTasks : ChallengeAnswered(p) =>
        IF ~nwc_configured THEN wcall[p].resp.status = 503 /\ NoInvoiceAsked(p)
        ELSE IF wcall[p].tool \notin PaidTools THEN wcall[p].resp.status = 404 /\ NoInvoiceAsked(p)
        ELSE IF wcall[p].ret = "Ok" THEN Challenge402(p)
        ELSE /\ wcall[p].resp = Http(500, "Invoice creation failed")
             /\ wcall[p].reqs = 1

\* a 402 for get_follower_graph, whose call price can differ from the base price
C14_Witness ==
    /\ ChallengeAnswered(1)
    /\ wcall[1].tool = "get_follower_graph"
    /\ wcall[1].resp.status = 402
    /\ wcall[1].resp.amount_sats = Pricing.get_follower_graph

HttpIdsHandedOut ==
    {sessions[i].id : i \in 1..Len(sessions)}
        \cup {SessionId(scall[p].id) : p \in {q \in STasks : scall[q].pc = "construct"}}

\* C15: in one process the HTTP sessions get the ids http-0, http-1, ... in
\* the order of their fetch_add: the ids handed out are pairwise distinct and
\* the counter is the number of sessions created, also when two sessions are
\* created concurrently; the stdio server's only id is "stdio".
C15_SessionIds ==
    /\ transport = "http" =>
          /\ \A i, j \in 1..Len(sessions) : i # j => sessions[i].id # sessions[j].id
          /\ \A p, q \in STasks :
                (p # q /\ scall[p].pc = "construct" /\ scall[q].pc = "construct")
                => scall[p].id # scall[q].id
          /\ HttpIdsHandedOut = {SessionId(n) : n \in 0..(session_counter - 1)}
          /\ Len(sessions) + InFlight = session_counter
    /\ transport = "stdio" =>
          /\ Len(sessions) = 1 /\ sessions[1].id = "stdio"
          /\ session_counter = 0

\* two sessions created concurrently, the second fetch_add before the first return
C15_Witness ==
    /\ transport = "http"
    /\ Len(sessions) = 2
    /\ sessions[1].id = "http-1" /\ sessions[2].id = "http-0"

\* C16: each connection has its own daily quota: on every day (of the first
\* year), of the limiter calls a connection has made, the first
\* calls_per_day were answered true, whatever any other connection used, that
\* day or another, in this process or in an earlier one.
C16_IndependentQuota ==
    \A c \in Conns, d \in Days :
        squota[<<c, 0, d>>].granted = Min(squota[<<c, 0, d>>].made, calls_per_day)

\* C17: the stored count of a session for today is the number of calls the
\* limiter has answered true for that session id today: a new day, of this
\* year or of a later one, starts at 0 whatever was used before, and the
\* count of a day is never reset.
C17_FreshRowEachDay ==
    \A s \in SessionIds : GetRateCount(rate_limits, s, today) = sused[<<s, year, today>>]

Priced == call.fn = "amount" /\ ret # NoRet

\* C18: search_events costs the base price when limit is absent or at most
\* 20, 15 sats more when limit is 21..50 and 40 sats more (15 and a further
\* 25) when limit is above 50; get_follower_graph costs the configured price
\* at depth 1 (or absent, or 0, clamped to 1) and exactly twice that at depth
\* 2 or more (clamped to 2); the other three tools cost their configured
\* price.
C18_Pricing ==
    Priced =>
        /\ call.tool = "search_events" =>
              ret.val = Pricing.search_events_base
                        + (IF call.param = NoParam \/ call.param <= 20 THEN 0
                           ELSE IF call.param <= 50 THEN 15 ELSE 15 + 25)
        /\ call.tool = "get_follower_graph" =>
              ret.val = IF call.param = NoParam \/ call.param <= 1
                        THEN Pricing.get_follower_graph
                        ELSE 2 * Pricing.get_follower_graph
        /\ call.tool = "relay_discovery" => ret.val = Pricing.relay_discovery
        /\ call.tool = "trending_notes" => ret.val = Pricing.trending_notes
        /\ call.tool = "zap_analytics" => ret.val = Pricing.zap_analytics

\* a search with limit 51 costs the base price and both surcharges
C18_Witness ==
    /\ Priced
    /\ call.tool = "search_events" /\ call.param = 51
    /\ ret.val = Pricing.search_events_base + 40

TrendingReturned == call.fn = "trending_notes" /\ ret # NoRet
FetchIndex(id) == CHOOSE i \in 1..Len(call.notes) : call.notes[i].id = id
ETagCount(events, id) ==
    Cardinality({ij \in (1..Len(events)) \X (1..3) :
        /\ ij[2] <= Len(events[ij[1]].tags)
        /\ Len(events[ij[1]].tags[ij[2]]) >= 2
        /\ events[ij[1]].tags[ij[2]][1] = "e"
        /\ events[ij[1]].tags[ij[2]][2] = id})
ExpectedScore(id) == ETagCount(call.reactions, id) + 3 * ETagCount(call.reposts, id)
\* a comes before b: a larger score, or the same score and fetched earlier
Before(a, b) ==
    \/ ExpectedScore(a) > ExpectedScore(b)
    \/ ExpectedScore(a) = ExpectedScore(b) /\ FetchIndex(a) < FetchIndex(b)

ZapsReturned == call.fn = "zap_analytics" /\ ret # NoRet
ZapAmount(i) == extract_zap_amount(call.receipts[i])
UtcDay(i) == call.receipts[i].created_at \div 86400
RECURSIVE SumOver(_)
SumOver(S) == IF S = {} THEN 0 ELSE LET i == CHOOSE i \in S : TRUE IN ZapAmount(i) + SumOver(S \ {i})
Date20240101 == <<50, 48, 50, 52, 45, 48, 49, 45, 48, 49>>
Date20240102 == <<50, 48, 50, 52, 45, 48, 49, 45, 48, 50>>

\* C20: zap_analytics returns the sum of the receipts' amounts, the number of
\* receipts, the truncated quotient of the two (0 without receipts), and one
\* entry per UTC date that has a receipt, in ascending date order, with that
\* date's count and sum; receipts of 100 and 50 sats on 2024-01-01 and 200 on
\* 2024-01-02 give 350, 3, 116 and [(2024-01-01, 2, 150), (2024-01-02, 1, 200)].
C20_ZapAnalytics ==
    ZapsReturned =>
        LET out == ret.zaps
            all == 1..Len(call.receipts)
            days == {UtcDay(i) : i \in all}
            series == out.zaps_over_time
        IN /\ out.total_received_sats = SumOver(all)
           /\ out.total_zaps_count = Len(call.receipts)
           /\ IF all = {} THEN out.avg_zap_sats = 0
              ELSE /\ out.avg_zap_sats * Len(call.receipts) <= SumOver(all)
                   /\ SumOver(all) < (out.avg_zap_sats + 1) * Len(call.receipts)
           /\ Len(series) = Cardinality(days)
           /\ \A k \in 1..Len(series) :
                 \E d \in days :
                    /\ Cardinality({e \in days : e < d}) = k - 1
                    /\ \A i \in all : UtcDay(i) = d => series[k].date = FormatDate(call.receipts[i].created_at)
                    /\ series[k].count = Cardinality({i \in all : UtcDay(i) = d})
                    /\ series[k].sats = SumOver({i \in all : UtcDay(i) = d})
           /\ (/\ Len(call.receipts) = 3
               /\ {<<UtcDay(i), ZapAmount(i)>> : i \in all} = {<<19723, 100>>, <<19723, 50>>, <<19724, 200>>})
              => /\ out.total_received_sats = 350
                 /\ out.total_zaps_count = 3
                 /\ out.avg_zap_sats = 116
                 /\ series = <<[date |-> Date20240101, count |-> 2, sats |-> 150],
                               [date |-> Date20240102, count |-> 1, sats |-> 200]>>

\* the example of the claim, the receipts fetched newest first
C20_Witness ==
    /\ ZapsReturned
    /\ call.receipts = <<ReceiptPool[3], ReceiptPool[2], ReceiptPool[1]>>
    /\ ret.zaps.total_received_sats = 350
    /\ ret.zaps.avg_zap_sats = 116
    /\ Len(ret.zaps.zaps_over_time) = 2
    /\ ret.zaps.zaps_over_time[1].date = Date20240101
    /\ ret.zaps.zaps_over_time[2].sats = 200

Bolt11Returned == call.fn = "parse_bolt11_amount" /\ ret # NoRet
AcceptPrefixes == {Lnbcrt, Lnbc, Lntb}
HasPrefix(s, p) == Len(s) >= Len(p) /\ SubSeq(s, 1, Len(p)) = p
\* the text after the longest accepted prefix of s
AfterPrefix(s) ==
    LET p == CHOOSE p \in AcceptPrefixes :
                 HasPrefix(s, p) /\ \A q \in AcceptPrefixes : HasPrefix(s, q) => Len(q) <= Len(p)
    IN SubSeq(s, Len(p) + 1, Len(s))
\* the amount portions of t: the text before a '1' with no '1' in it
Portions(t) ==
    {SubSeq(t, 1, k - 1) : k \in {k \in 1..Len(t) : t[k] = 49 /\ \A j \in 1..(k - 1) : t[j] # 49}}
IsNumber(n) ==
    \/ Len(n) > 0 /\ \A i \in 1..Len(n) : n[i] \in 48..57
    \/ Len(n) > 1 /\ n[1] = 43 /\ \A i \in 2..Len(n) : n[i] \in 48..57
NumberOf(n) == DigitsValue(IF n[1] = 43 THEN SubSeq(n, 2, Len(n)) ELSE n)
Multipliers == {109, 117, 110, 112}
\* the amount the statement gives for an amount portion
PortionSats(a) ==
    LET last == a[Len(a)]
        n == IF last \in Multipliers THEN SubSeq(a, 1, Len(a) - 1) ELSE a
    IN IF ~IsNumber(n) THEN NoAmount
       ELSE IF last = 109 THEN SomeAmount(NumberOf(n) * 100000)
       ELSE IF last = 117 THEN SomeAmount(NumberOf(n) * 100)
       ELSE IF last = 110 THEN SomeAmount(NumberOf(n) \div 10)
       ELSE IF last = 112 THEN SomeAmount(NumberOf(n) \div 100)
       ELSE SomeAmount(NumberOf(n) * 100000000)
\* the amount the statement gives for the text s
StatedSats(s) ==
    IF ~\E p \in AcceptPrefixes : HasPrefix(s, p) THEN NoAmount
    ELSE IF Portions(AfterPrefix(s)) = {} THEN NoAmount
    ELSE LET a == CHOOSE a \in Portions(AfterPrefix(s)) : TRUE
         IN IF Len(a) = 0 THEN NoAmount ELSE PortionSats(a)

\* C21 as stated: the prefixes, the amount portion and the multipliers are
\* read from the string as given.
C21_Bolt11AsGiven == Bolt11Returned => ret.amount = StatedSats(call.text)

\* C21: parse_bolt11_amount reads the string in lower case; it gives an
\* amount only after the prefix lnbcrt, lnbc or lntb (longest first), takes
\* the text up to the first '1' as the amount portion, gives nothing when the
\* portion is empty or its number is not a non-negative integer, and
\* otherwise n x 100000 (m), n x 100 (u), n / 10 (n), n / 100 (p), each
\* truncated, or n x 100000000 without a multiplier.
C21_Bolt11LowerCased == Bolt11Returned => ret.amount = StatedSats(ToLowercase(call.text))

\* lntb2500u1p1q: 250000 sats, read up to the first of two '1'
C21_Witness ==
    /\ Bolt11Returned
    /\ call.text = <<108, 110, 116, 98, 50, 53, 48, 48, 117, 49, 112, 49, 113>>
    /\ ret.amount = SomeAmount(250000)

Lnbc1500n1 == <<108, 110, 98, 99, 49, 53, 48, 48, 110, 49>>
Lnbc10u1 == <<108, 110, 98, 99, 49, 48, 117, 49>>
Lnbc1m1 == <<108, 110, 98, 99, 49, 109, 49>>
Lnbc1 == <<108, 110, 98, 99, 49>>

\* C22: the parser gives 150 sats for an invoice that begins lnbc1500n1,
\* 1000 for one that begins lnbc10u1, 100000 for one that begins lnbc1m1 and
\* 100000000 for lnbc1.
C22_Bolt11Examples ==
    Bolt11Returned =>
        /\ HasPrefix(call.text, Lnbc1500n1) => ret.amount = SomeAmount(150)
        /\ HasPrefix(call.text, Lnbc10u1) => ret.amount = SomeAmount(1000)
        /\ HasPrefix(call.text, Lnbc1m1) => ret.amount = SomeAmount(100000)
        /\ call.text = Lnbc1 => ret.amount = SomeAmount(100000000)

TimeframeReturned == call.fn = "parse_timeframe" /\ ret # NoRet
StepReturned == call.fn = "timeframe_step" /\ ret # NoRet
UnitSeconds(u) == IF u = 104 THEN 3600 ELSE IF u = 100 THEN 86400 ELSE 31536000
\* '<N>h', '<N>d' or '<N>y' with N a non-negative integer
IsTimeframe(s) == Len(s) > 0 /\ s[Len(s)] \in {104, 100, 121} /\ IsNumber(SubSeq(s, 1, Len(s) - 1))
StatedSeconds(s) == NumberOf(SubSeq(s, 1, Len(s) - 1)) * UnitSeconds(s[Len(s)])
\* the result the statement gives for the text s
StatedTimeframe(s, r) == IF IsTimeframe(s) THEN r.ok /\ r.secs = StatedSeconds(s) ELSE ~r.ok
\* the text without white space around it, in lower case
Normal(s) ==
    LET ink == {i \in 1..Len(s) : s[i] \notin {9, 10, 11, 12, 13, 32}}
        lo == CHOOSE i \in ink : \A j \in ink : i <= j
        hi == CHOOSE i \in ink : \A j \in ink : j <= i
    IN IF ink = {} THEN <<>>
       ELSE [k \in 1..(hi - lo + 1) |->
                IF s[lo + k - 1] \in 65..90 THEN s[lo + k - 1] + 32 ELSE s[lo + k - 1]]
\* the timeframe a handler parses
StepText == IF call.param.some THEN call.param.text
            ELSE IF call.tool = "zap_analytics" THEN <<51, 48, 100>> ELSE <<50, 52, 104>>
StepParses == call.tool = "trending_notes" \/ call.pubkey_ok
HandlersFail(text) ==
    StepReturned /\ StepParses =>
        IF IsTimeframe(text) THEN ret.step.kind = "since" /\ ret.step.secs = StatedSeconds(text)
        ELSE ret.step.kind = "err" /\ ret.step.msg = "Invalid timeframe"

\* C23 as stated: the timeframe is read as given, and every text that is not
\* '<N>h', '<N>d' or '<N>y' is an error.
C23_TimeframeAsGiven ==
    /\ TimeframeReturned => StatedTimeframe(call.text, ret.result)
    /\ HandlersFail(StepText)

\* C23: parse_timeframe strips the white space around the text and reads it in
\* lower case; '<N>h' is then N x 3600, '<N>d' N x 86400 and '<N>y'
\* N x 31536000 seconds for a non-negative integer N (1h 3600, 24h 86400, 7d
\* 604800, 1y 31536000), every other text is an error, and trending_notes and
\* zap_analytics fail with 'Invalid timeframe' on such an error.
C23_TimeframeNormalised ==
    /\ TimeframeReturned =>
          /\ StatedTimeframe(Normal(call.text), ret.result)
          /\ call.text = <<49, 104>> => ret.result.secs = 3600
          /\ call.text = <<50, 52, 104>> => ret.result.secs = 86400
          /\ call.text = <<55, 100>> => ret.result.secs = 604800
          /\ call.text = <<49, 121>> => ret.result.secs = 31536000
    /\ HandlersFail(Normal(StepText))

\* ' 7D ' is seven days
C23_Witness ==
    /\ TimeframeReturned
    /\ call.text = <<32, 55, 68, 32>>
    /\ ret.result.ok /\ ret.result.secs = 604800

GraphReturned == call.fn = "get_follower_graph" /\ ret # NoRet
Elems(s) == {s[i] : i \in 1..Len(s)}
Authors == {call.events[i].pubkey : i \in 1..Len(call.events)}
FirstEvent(pk) == CHOOSE i \in 1..Len(call.events) :
                      call.events[i].pubkey = pk /\ \A j \in 1..(i - 1) : call.events[j].pubkey # pk
PlaceIn(s, x) == CHOOSE i \in 1..Len(s) : s[i] = x
PTagValues ==
    IF ~call.contact_list.some THEN {}
    ELSE {call.contact_list.tags[i][2] :
            i \in {i \in 1..Len(call.contact_list.tags) :
                     Len(call.contact_list.tags[i]) >= 2 /\ call.contact_list.tags[i][1] = "p"}}
NoRepeat(s) == \A i, j \in 1..Len(s) : i # j => s[i] # s[j]

\* C24: following holds the pubkeys of the p-tags of the contact list;
\* followers holds each author of the fetched events once, in the order of
\* the authors' first events; mutual_follows holds exactly the followers that
\* are in following, in the followers' order, so it is a subset of both; the
\* depth is 1 or 2 and the graph is the same for both.
C24_FollowerGraph ==
    GraphReturned =>
        LET g == ret.graph
        IN /\ Elems(g.following) = PTagValues
           /\ g.following_count = Len(g.following)
           /\ Elems(g.followers_sample) = Authors
           /\ NoRepeat(g.followers_sample)
           /\ g.followers_count = Cardinality(Authors)
           /\ \A a, b \in Authors :
                 FirstEvent(a) < FirstEvent(b)
                    => PlaceIn(g.followers_sample, a) < PlaceIn(g.followers_sample, b)
           /\ Elems(g.mutual_follows) = Authors \cap PTagValues
           /\ NoRepeat(g.mutual_follows)
           /\ \A a, b \in Elems(g.mutual_follows) :
                 PlaceIn(g.followers_sample, a) < PlaceIn(g.followers_sample, b)
                    => PlaceIn(g.mutual_follows, a) < PlaceIn(g.mutual_follows, b)
           /\ Elems(g.mutual_follows) \subseteq Elems(g.following)
           /\ Elems(g.mutual_follows) \subseteq Elems(g.followers_sample)
           /\ ret.depth \in {1, 2}
           /\ ret.depth = (IF call.depth = NoParam \/ call.depth < 1 THEN 1
                           ELSE IF call.depth > 2 THEN 2 ELSE call.depth)
           /\ g = get_follower_graph(call.contact_list, call.events, 1)
           /\ g = get_follower_graph(call.contact_list, call.events, 2)

\* a depth-2 call: six events of four authors, two of them followed
C24_Witness ==
    /\ GraphReturned
    /\ call.depth = 3 /\ ret.depth = 2
    /\ call.events = <<By("a"), By("b"), By("c"), By("a"), By("e"), By("b")>>
    /\ call.contact_list = ContactList(<<<<"P", "a">>, <<"p", "d">>, <<"p", "b">>>>)
    /\ ret.graph.followers_sample = <<"a", "b", "c", "e">>
    /\ ret.graph.following = <<"d", "b">>
    /\ ret.graph.mutual_follows = <<"b">>

CleanupAt(pc) == ccall[Cleaner].pc = pc
\* the cleaner's statement ran (it did not fail)
CleanupRan(pc, next) == CleanupAt(pc) /\ ccall'[Cleaner].pc = next
Gone(row, t) == row # NoEntry /\ row.expires_at < t
\* what a lookup that reads the clock at t finds for key k
Found(tbl, k, t) == IF tbl[k] # NoEntry /\ tbl[k].expires_at > t THEN tbl[k] ELSE NoEntry
LaterTimes == {t \in 0..(MaxTime + 1) : t >= ccall[Cleaner].t}
CountOf(tbl, c, d) == IF tbl[<<c, d>>] = NoRow THEN 0 ELSE tbl[<<c, d>>]

\* C25: each statement of cleanup_expired deletes exactly the rows of its
\* table that expired before the time the cleanup read (profiles, relay
\* info) or that belong to a day before today (rate limits) and changes no
\* other row and no other table; no lookup that reads the clock at or after
\* the cleanup's time finds anything else than it would have found, and the
\* count of every (session, today) row stays as it was.
C25_CleanupExpired ==
    [][/\ CleanupRan("delete_profiles", "delete_relay_info") =>
             /\ \A k \in Pubkeys :
                   profiles'[k] = IF Gone(profiles[k], ccall[Cleaner].t) THEN NoEntry ELSE profiles[k]
             /\ relay_info' = relay_info /\ rate_limits' = rate_limits
             /\ \A k \in Pubkeys, t \in LaterTimes : Found(profiles', k, t) = Found(profiles, k, t)
       /\ CleanupRan("delete_relay_info", "delete_rate_limits") =>
             /\ \A k \in Relays :
                   relay_info'[k] = IF Gone(relay_info[k], ccall[Cleaner].t) THEN NoEntry
                                    ELSE relay_info[k]
             /\ profiles' = profiles /\ rate_limits' = rate_limits
             /\ \A k \in Relays, t \in LaterTimes : Found(relay_info', k, t) = Found(relay_info, k, t)
       /\ (CleanupAt("delete_rate_limits") /\ ccall'[Cleaner].res = "ok") =>
             /\ \A k \in RateKeys :
                   rate_limits'[k] = IF k[2] < today THEN NoRow ELSE rate_limits[k]
             /\ profiles' = profiles /\ relay_info' = relay_info
             /\ \A c \in Clients : CountOf(rate_limits', c, today) = CountOf(rate_limits, c, today)
       /\ (CleanupAt("idle") \/ CleanupAt("done")) /\ ccall'[Cleaner].pc = "delete_profiles" =>
             profiles' = profiles /\ relay_info' = relay_info /\ rate_limits' = rate_limits
      ]_vars

\* a cleanup ran to its end on the second day: the expired profile and the
\* first day's rows are gone, the rows of the second day are there
C25_Witness ==
    /\ ccall[Cleaner].op = "cleanup_expired" /\ ccall[Cleaner].pc = "done"
    /\ ccall[Cleaner].res = "ok"
    /\ today = 2
    /\ plast["pk1"] # NoEntry /\ profiles["pk1"] = NoEntry
    /\ rate_limits[<<"http-0", 1>>] = NoRow /\ rate_limits[<<"http-0", 2>>] = 1
    /\ rate_limits[<<"http-1", 2>>] = 1

\* C26: every profile row is the row the last executed set_profile for the
\* pubkey wrote, with expires_at = cached_at + profile TTL and expires_at >
\* cached_at, whatever the configured TTL.
C26_SetProfileRows ==
    \A k \in Pubkeys :
        profiles[k] # NoEntry =>
            /\ profiles[k] = plast[k]
            /\ profiles[k].expires_at = profiles[k].cached_at + profile_ttl
            /\ profiles[k].expires_at > profiles[k].cached_at

\* task p took this step
Stepped(p) == gcall'[p] # gcall[p]
\* the call task p is in after the step is a free tool's or carries a payment hash
FreeOrHashed(p) == gcall'[p].tool \in FreeTools \/ gcall'[p].hash # NoHash
\* the step is a statement of check_and_increment_rate in a paid call without hash
CountingStep(p) ==
    /\ gcall[p].tool \in PaidTools /\ gcall[p].hash = NoHash
    /\ gcall[p].pc \in {"insert", "update"}
    /\ gcall'[p].pc # gcall[p].pc
    /\ \A k \in RateKeys : k # <<gcall[p].session, gcall[p].day>> => rate_limits'[k] = rate_limits[k]

\* C27: the rate counters change only in a step of a paid-tool call that
\* carries no payment_hash, and then only the row of that call's session
\* and day; every step of a free tool's call and every step of a paid call
\* that carries a payment_hash (whatever its outcome) leaves every counter
\* as it was.
C27_CounterFrame ==
    [][/\ rate_limits' # rate_limits => \E p \in Tasks : CountingStep(p)
       /\ \A p \in Tasks : Stepped(p) /\ FreeOrHashed(p) => rate_limits' = rate_limits
      ]_vars

\* a paid call without hash was counted, then a call carrying a settled hash
\* proceeded and a free get_profile stored a profile: the counter is still 1
C27_Witness ==
    /\ gcall[Worker].hash # NoHash /\ gcall[Worker].gate = "Proceed" /\ gcall[Worker].pc = "done"
    /\ gcall[Visitor].tool = "get_profile" /\ gcall[Visitor].pc = "done"
    /\ profiles["pk1"] # NoEntry
    /\ rate_limits[<<gcall[Worker].session, 1>>] = 1
    /\ \A k \in RateKeys : k # <<gcall[Worker].session, 1>> => rate_limits[k] = NoRow

\* the gate decided a call carrying a payment hash in this step
HashDecided(p) ==
    /\ Stepped(p) /\ gcall[p].pc # "body"
    /\ gcall'[p].hash # NoHash /\ gcall'[p].gate # "none"
\* what the gate answers to a payment hash, from the gateway and the lookup alone
HashOutcome(configured, lookup) ==
    IF ~configured THEN [gate |-> "Err", msg |-> "Payment system not configured"]
    ELSE CASE lookup = "settled" -> [gate |-> "Proceed", msg |-> ""]
           [] lookup = "unsettled" ->
                 [gate |-> "Err", msg |-> "Payment not confirmed. Invoice may be unpaid or expired."]
           [] OTHER -> [gate |-> "Err", msg |-> "NWC lookup_invoice failed"]
\* the lookup ran in this step for a hash the wallet has settled
SettledLookup(p) == gcall[p].pc = "verify" /\ gcall[p].hash \in settled /\ Stepped(p)

\* C28 as stated: once the wallet has a hash settled, every paid call
\* carrying it proceeds.
C28_SettledAlwaysProceeds ==
    [][\A p \in Tasks : SettledLookup(p) => gcall'[p].gate = "Proceed"]_vars

\* C28: for a call carrying a payment_hash the gate's outcome is a function
\* of whether a gateway is configured and of the lookup's answer (settled,
\* unsettled, or failed) alone, whatever the tool, price, session, earlier
\* uses and pending map; a lookup for a settled hash answers settled or
\* fails, so every call carrying a settled hash proceeds unless its lookup
\* fails.
C28_HashOutcome ==
    [][\A p \in Tasks :
          /\ HashDecided(p) =>
                /\ gcall'[p].gate = HashOutcome(nwc_configured, gcall'[p].lookup).gate
                /\ gcall'[p].msg = HashOutcome(nwc_configured, gcall'[p].lookup).msg
                /\ rate_limits' = rate_limits
          /\ SettledLookup(p) => gcall'[p].lookup \in {"settled", "fail"}
          /\ gcall[p].pc = "verify" /\ gcall[p].hash \notin settled /\ Stepped(p) =>
                gcall'[p].lookup \in {"unsettled", "fail"}
      ]_vars

\* a settled hash that is not in the pending map, issued for relay_discovery
\* in an earlier run, lets a search_events call with limit 51 proceed as
\* the second call of the run
C28_Witness ==
    /\ gcall[Worker].hash = 1 /\ gcall[Worker].gate = "Proceed"
    /\ gcall[Worker].tool = "search_events" /\ gcall[Worker].param = 51
    /\ gcall[Worker].session = "http-0"
    /\ gcall[Worker].amount # Amount("relay_discovery", NoParam)
    /\ 1 \notin DOMAIN pending_invoices
    /\ wallet = <<EarlierInvoice>>
    /\ ncalls = 2

\* the store counted the call of task p: its UPDATE ran and found the row under the limit
Counted(c) == c.hash = NoHash /\ c.under = "true" /\ ~c.fault
\* the tool body (argument validation, relay fetch) of task p runs in this step
BodyStep(p) == gcall[p].pc = "body" /\ gcall'[p].pc = "done"

\* C29: the tool body, where arguments are validated and relays are asked,
\* runs only after the gate has answered Proceed; a call without
\* payment_hash that the store counted as under the limit holds its unit
\* of the (session, day) row when its body runs and after the body has
\* failed; no step lowers any counter.
C29_UnitConsumedBeforeBody ==
    [][/\ \A k \in RateKeys : rate_limits'[k] >= rate_limits[k]
       /\ \A p \in Tasks :
             /\ BodyStep(p) => gcall[p].gate = "Proceed" /\ rate_limits' = rate_limits
             /\ gcall'[p].body => gcall'[p].gate = "Proceed"
             /\ Counted(gcall'[p]) =>
                   /\ gcall'[p].rank_ok >= 1
                   /\ rate_limits'[<<gcall'[p].session, gcall'[p].day>>] >= gcall'[p].rank_ok
      ]_vars

\* with a limit of 1 the first call of http-0 was counted and its tool then
\* failed; the next call of http-0 on the same day is over the limit
C29_Witness ==
    /\ calls_per_day = 1
    /\ gcall[1].session = "http-0" /\ Counted(gcall[1])
    /\ gcall[1].body /\ gcall[1].ret = "Err" /\ gcall[1].pc = "done"
    /\ gcall[2].session = "http-0" /\ gcall[2].day = gcall[1].day
    /\ gcall[2].hash = NoHash /\ gcall[2].under = "false" /\ ~gcall[2].fault
    /\ rate_limits[<<"http-0", gcall[1].day>>] = 1

\* the free-tier-exhausted responses on record
Exhausted(p) == gcall[p].resp.kind = "free_tier_exhausted"

====
